---- MODULE Spec2Model ----
(***************************************************************************)
(* Source adapters of mango-go-plugins (WeebCentral, Webtoons, MangaDex):  *)
(* the three operations search, getChapters and getPageURLs of each        *)
(* adapter, as the sequence of steps between the awaits of the async       *)
(* functions, against an HTTP collaborator that answers each request with  *)
(* any response of a small set.                                            *)
(*                                                                         *)
(* JavaScript strings that the code inspects are sequences of one-         *)
(* character strings; Null is the absent (null / undefined) string.        *)
(* Numbers produced by parseFloat are kept in hundredths.                  *)
(***************************************************************************)
EXTENDS Integers, Sequences, FiniteSets, TLC

(***************************************************************************)
(* Bounds of the model                                                     *)
(***************************************************************************)
\* number of requests one getChapters invocation may issue before the
\* collaborator has to serve a page that ends the pagination
MaxPages == 3
\* the same for the Webtoons cursor loop
MaxCursorPages == 2
\* length of a page that is not a full page
MaxShortPage == 2

(***************************************************************************)
(* Strings                                                                 *)
(***************************************************************************)
Null == <<"<null>">>

Digits == {"0", "1", "2", "3", "4", "5", "6", "7", "8", "9"}

DigitVal(c) ==
  CASE c = "0" -> 0 [] c = "1" -> 1 [] c = "2" -> 2 [] c = "3" -> 3
    [] c = "4" -> 4 [] c = "5" -> 5 [] c = "6" -> 6 [] c = "7" -> 7
    [] c = "8" -> 8 [] c = "9" -> 9

\* String(n) / template interpolation of a non-negative integer
RECURSIVE NumToString(_)
NumToString(n) ==
  LET
      DigitChar(d) ==
        CASE d = 0 -> "0" [] d = 1 -> "1" [] d = 2 -> "2" [] d = 3 -> "3"
          [] d = 4 -> "4" [] d = 5 -> "5" [] d = 6 -> "6" [] d = 7 -> "7"
          [] d = 8 -> "8" [] d = 9 -> "9"
  IN
  IF n < 10 THEN <<DigitChar(n)>>
  ELSE NumToString(n \div 10) \o <<DigitChar(n % 10)>>

\* the suffix of s from position i (1-based) on
From(s, i) == SubSeq(s, i, Len(s))

\* String.prototype.startsWith
StartsWith(s, p) ==
  /\ Len(p) <= Len(s)
  /\ SubSeq(s, 1, Len(p)) = p

\* String.prototype.indexOf, 1-based; 0 when sub does not occur
IndexOf(s, sub) ==
  LET hits == {i \in 1..(Len(s) + 1 - Len(sub)) : SubSeq(s, i, i + Len(sub) - 1) = sub}
  IN IF hits = {} THEN 0
     ELSE CHOOSE i \in hits : \A j \in hits : i <= j

\* String.prototype.includes
Includes(s, sub) == IndexOf(s, sub) # 0

\* s.replace(/c/g, d) for one-character c and d
ReplaceAllChar(s, c, d) == [i \in 1..Len(s) |-> IF s[i] = c THEN d ELSE s[i]]

WhiteSpace == {" ", "\t", "\n"}

\* String.prototype.trim
RECURSIVE TrimStart(_)
TrimStart(s) ==
  IF s # <<>> /\ s[1] \in WhiteSpace THEN TrimStart(Tail(s)) ELSE s

RECURSIVE TrimEnd(_)
TrimEnd(s) ==
  IF s # <<>> /\ s[Len(s)] \in WhiteSpace THEN TrimEnd(SubSeq(s, 1, Len(s) - 1)) ELSE s

Trim(s) == TrimEnd(TrimStart(s))

\* the longest prefix of s made of digits
RECURSIVE LeadingDigits(_)
LeadingDigits(s) ==
  IF s # <<>> /\ s[1] \in Digits THEN <<s[1]>> \o LeadingDigits(Tail(s)) ELSE <<>>

\* the value of a digit string (0 for the empty string)
RECURSIVE DigitsValue(_)
DigitsValue(d) ==
  IF d = <<>> THEN 0
  ELSE 10 * DigitsValue(SubSeq(d, 1, Len(d) - 1)) + DigitVal(d[Len(d)])

\* parseFloat: leading white space, an optional sign, digits with an optional
\* fraction; NaN when no digit is found.  The result is in hundredths.
\* (Inputs of the model hold no exponent and at most two decimals.)
parseFloat(str) ==
  LET
      \* the value, in hundredths, of the digit string d read as a decimal fraction
      FractionValue(d) ==
        (IF Len(d) >= 1 THEN 10 * DigitVal(d[1]) ELSE 0)
        + (IF Len(d) >= 2 THEN DigitVal(d[2]) ELSE 0)

      NaN == [nan |-> TRUE, v |-> 0]
  IN
  IF str = Null THEN NaN
  ELSE
    LET t    == TrimStart(str)
        neg  == t # <<>> /\ t[1] = "-"
        u    == IF t # <<>> /\ t[1] \in {"-", "+"} THEN Tail(t) ELSE t
        ip   == LeadingDigits(u)
        rest == From(u, Len(ip) + 1)
        fp   == IF rest # <<>> /\ rest[1] = "." THEN LeadingDigits(Tail(rest)) ELSE <<>>
        mag  == 100 * DigitsValue(ip) + FractionValue(fp)
    IN IF ip = <<>> /\ fp = <<>> THEN NaN
       ELSE [nan |-> FALSE, v |-> IF neg THEN 0 - mag ELSE mag]

\* parseFloat(x) || 0 : NaN and 0 are falsy
ParseFloatOrZero(str) ==
  LET p == parseFloat(str) IN IF p.nan THEN 0 ELSE p.v

\* a <= b on JavaScript numbers: false when either side is NaN
NumLeq(a, b) == ~a.nan /\ ~b.nan /\ a.v <= b.v

\* Array.prototype.reverse
Reverse(s) == [i \in 1..Len(s) |-> s[Len(s) + 1 - i]]

\* a variant whose sort puts an element before the elements of equal key
SortByChapter_ties(chapters) ==
  LET
      InsertByChapter(sorted, x) ==
        LET k == ParseFloatOrZero(x.chapter)
            n == Cardinality({i \in 1..Len(sorted) : ParseFloatOrZero(sorted[i].chapter) < k})
        IN SubSeq(sorted, 1, n) \o <<x>> \o SubSeq(sorted, n + 1, Len(sorted))

      RECURSIVE SortByChapterFrom(_, _)
      SortByChapterFrom(sorted, todo) ==
        IF todo = <<>> THEN sorted
        ELSE SortByChapterFrom(InsertByChapter(sorted, Head(todo)), Tail(todo))
  IN
                           SortByChapterFrom(<<>>, chapters)

SortByChapter(chapters) ==
  LET
      \* chapters.sort((a, b) => (parseFloat(a.chapter) || 0) - (parseFloat(b.chapter) || 0))
      \* Array.prototype.sort is stable: an element goes after every element whose
      \* key is not greater.
      InsertByChapter(sorted, x) ==
        LET k == ParseFloatOrZero(x.chapter)
            n == Cardinality({i \in 1..Len(sorted) : ParseFloatOrZero(sorted[i].chapter) <= k})
        IN SubSeq(sorted, 1, n) \o <<x>> \o SubSeq(sorted, n + 1, Len(sorted))

      RECURSIVE SortByChapterFrom(_, _)
      SortByChapterFrom(sorted, todo) ==
        IF todo = <<>> THEN sorted
        ELSE SortByChapterFrom(InsertByChapter(sorted, Head(todo)), Tail(todo))
  IN
                           SortByChapterFrom(<<>>, chapters)

(***************************************************************************)
(* State                                                                   *)
(***************************************************************************)
VARIABLES
  adapter,      \* the adapter whose operation is running
  op,           \* the operation running: search, getChapters, getPageURLs
  arg,          \* its argument (query, seriesIdentifier, chapterIdentifier)
  mango,        \* the injected collaborator: [parseHTML : BOOLEAN]
  pc,           \* "idle", "awaiting" (an HTTP request is outstanding), "done"
  cursor,       \* Webtoons getChapters: let cursor
  offset,       \* MangaDex getChapters: let offset
  allEpisodes,  \* Webtoons getChapters: const allEpisodes
  allChapters,  \* MangaDex getChapters: const allChapters
  outcome,      \* what the invocation gave its caller
  errorLogs,    \* number of mango.log.error calls of the invocation
  requests,     \* the HTTP requests the invocation issued, in order
  responses,    \* the answers it received, in order
  codec,        \* the Webtoons identifier codec applied to one (S, V, N)
  proxy,        \* constructProxyUrl applied to one (imageUrl, options)
  clock,        \* Webtoons getChapters: what new Date() gave the invocation
  earlier       \* an invocation that has ended before, as its caller saw it

vars == <<adapter, op, arg, mango, pc, cursor, offset, allEpisodes,
          allChapters, outcome, errorLogs, requests, responses, codec, proxy,
          clock, earlier>>

\* JavaScript values of a field that holds a number or nothing
JSNull == [t |-> "null", n |-> 0]
JSNum(n) == [t |-> "num", n |-> n]
\* null, undefined and 0 are falsy
Truthy(v) == v.t = "num" /\ v.n # 0

NoOutcome == [kind |-> "none", value |-> <<>>, error |-> <<>>]
Returned(v) == [kind |-> "returned", value |-> v, error |-> <<>>]
\* a rejected promise; error is the message, a sequence of its parts
Threw(message) == [kind |-> "threw", value |-> <<>>, error |-> message]

\* no URL has been handed to constructProxyUrl
NoProxy == [fn |-> "none", imageUrl |-> <<>>, options |-> [referer |-> Null, userAgent |-> Null, origin |-> Null],
            url |-> <<>>, applied |-> FALSE]

\* no invocation has ended yet
NoEarlier == [adapter |-> "none", op |-> "none", arg |-> <<>>, mango |-> [parseHTML |-> TRUE],
              responses |-> <<>>, clock |-> "", outcome |-> NoOutcome]

NoCodec == [S |-> <<>>, V |-> <<>>, N |-> <<>>, id |-> <<>>,
            matched |-> FALSE, mangaID |-> <<>>, viewerLink |-> <<>>, chNum |-> <<>>,
            applied |-> FALSE]

(***************************************************************************)
(* The HTTP collaborator                                                   *)
(***************************************************************************)
Statuses == {200, 204, 500}

StatusText(status) ==
  CASE status = 200 -> "OK"
    [] status = 204 -> "No Content"
    [] status = 500 -> "Internal Server Error"

\* `${response.status}`
StatusString(status) ==
  CASE status = 200 -> "200"
    [] status = 204 -> "204"
    [] status = 500 -> "500"

\* mango.http.get / post rejected: a network error
NetworkError(data) ==
  [threw |-> TRUE, status |-> 0, statusText |-> "", data |-> data]

HttpResponse(status, data) ==
  [threw |-> FALSE, status |-> status, statusText |-> StatusText(status), data |-> data]

\* the answers that carry no usable body: a rejection and the statuses other than 200
FailedResponses(noData) ==
  {NetworkError(noData)} \cup {HttpResponse(s, noData) : s \in Statuses \ {200}}

\* the log of the requests, and of the responses, of a pagination loop holds
\* at most max entries
Logged(log, entry, max) == IF Len(log) < max THEN Append(log, entry) ELSE log

Request(method, endpoint, target, page) ==
  [method |-> method, endpoint |-> endpoint, target |-> target, page |-> page]

\* what the log keeps of an answer: whether the request was rejected, the
\* status and the body
Received(resp) == [threw |-> resp.threw, status |-> resp.status, body |-> resp.data]

\* all sequences over S of length at most n
SeqsUpTo(S, n) == UNION {[1..k -> S] : k \in 0..n}

(***************************************************************************)
(* MangaDex: getChapters                                                   *)
(***************************************************************************)
\* const limit = 500
limit == 500

\* the dates the sources send, and new Date(d).toISOString()
\* (Date.parse and toISOString are tabulated on the dates of the model)
ValidDate == "2024-01-01T00:00:00+00:00"
ValidMillis == "1464048000000"
InvalidDate == "not a date"

\* !isNaN(new Date(d).getTime())
DateIsValid(d) == d \in {ValidDate, ValidMillis}

\* new Date(d).toISOString()
toISOString(d) ==
  CASE d = ValidDate -> "2024-01-01T00:00:00.000Z"
    [] d = ValidMillis -> "2016-05-24T00:00:00.000Z"

\* one element of the feed's data array
ChapterData(id, volume, chapter, title, publishAt) ==
  [id |-> id, hasAttributes |-> TRUE, volume |-> volume, chapter |-> chapter,
   title |-> title, pages |-> 20, translatedLanguage |-> "en", publishAt |-> publishAt]

\* response.data of the feed endpoint
FeedBody(isNull, hasData, data) == [isNull |-> isNull, hasData |-> hasData, data |-> data]

\* the pages after which the loop goes on
FullFeedPages(off) ==
  LET
      \* a full page as an API that honours order[chapter]=desc serves it at offset
      \* off: limit chapters numbered downwards
      FullPageDescending(first) ==
        [i \in 1..limit |->
           ChapterData(<<"f">> \o NumToString(first + i), Null,
                       NumToString(3 * limit - first - i), Null, "")]

      \* a full page of chapters that all carry the same number
      FullPageConstant(first) ==
        [i \in 1..limit |->
           ChapterData(<<"g">> \o NumToString(first + i), Null, <<"7">>, Null, "")]
  IN
  {HttpResponse(200, FeedBody(FALSE, TRUE, d)) : d \in {FullPageDescending(off), FullPageConstant(off)}}

\* the pages after which the loop ends, and the failures
LastFeedPages ==
  LET
      \* an element without attributes
      ChapterDataNoAttributes(id) ==
        [id |-> id, hasAttributes |-> FALSE, volume |-> Null, chapter |-> Null,
         title |-> Null, pages |-> 0, translatedLanguage |-> "", publishAt |-> ""]

      \* the feed items short pages are made of: chapters of two volumes whose
      \* numbering restarts, a oneshot without volume and chapter, an item with a
      \* date that does not parse, an item without attributes
      FeedItems ==
        { ChapterData(<<"c","1">>, <<"1">>, <<"1">>, <<"T">>, ValidDate),
          ChapterData(<<"c","2">>, <<"1">>, <<"5">>, Null, ""),
          ChapterData(<<"c","3">>, <<"2">>, <<"1">>, Null, ValidDate),
          ChapterData(<<"c","4">>, Null, Null, <<"O","n","e","s","h","o","t">>, ""),
          ChapterData(<<"c","5">>, Null, <<"2">>, Null, InvalidDate),
          ChapterDataNoAttributes(<<"c","6">>) }

      NoFeedBody == FeedBody(TRUE, FALSE, <<>>)
  IN
  {HttpResponse(200, FeedBody(FALSE, TRUE, d)) : d \in SeqsUpTo(FeedItems, MaxShortPage)}
  \cup {HttpResponse(200, FeedBody(FALSE, FALSE, <<>>)), HttpResponse(200, NoFeedBody)}
  \cup FailedResponses(NoFeedBody)

\* function formatChapterTitle(attrs): parts.join(" ")
formatChapterTitle(attrs) ==
  LET vol == IF attrs.volume # Null /\ attrs.volume # <<>>
             THEN <<<<"V","o","l","."," ">> \o attrs.volume>> ELSE <<>>
      ch  == IF attrs.chapter # Null /\ attrs.chapter # <<>>
             THEN <<<<"C","h","."," ">> \o attrs.chapter>> ELSE <<>>
      ti  == IF attrs.title # Null /\ attrs.title # <<>> THEN <<attrs.title>> ELSE <<>>
      parts == vol \o ch \o ti
  IN IF parts = <<>> THEN <<>>
     ELSE IF Len(parts) = 1 THEN parts[1]
     ELSE IF Len(parts) = 2 THEN parts[1] \o <<" ">> \o parts[2]
     ELSE parts[1] \o <<" ">> \o parts[2] \o <<" ">> \o parts[3]

\* x || "" for a string field
OrEmpty(x) == IF x = Null THEN <<>> ELSE x

\* a variant that puts a prefix before the chapter id
MangaDexChapterResult_prefixed(chapterData) ==
  [identifier |-> <<"m","d","-">> \o chapterData.id,
   title |-> formatChapterTitle(chapterData),
   volume |-> OrEmpty(chapterData.volume),
   chapter |-> OrEmpty(chapterData.chapter),
   pages |-> chapterData.pages,
   language |-> chapterData.translatedLanguage,
   published_at |-> IF chapterData.publishAt # "" THEN toISOString(chapterData.publishAt) ELSE ""]

\* the ChapterResult pushed for one element of the feed (lines 185-195)
MangaDexChapterResult(chapterData) ==
  [identifier |-> chapterData.id,
   title |-> formatChapterTitle(chapterData),
   volume |-> OrEmpty(chapterData.volume),
   chapter |-> OrEmpty(chapterData.chapter),
   pages |-> chapterData.pages,
   language |-> chapterData.translatedLanguage,
   published_at |-> IF chapterData.publishAt # "" THEN toISOString(chapterData.publishAt) ELSE ""]

\* an element whose mapping throws: attrs undefined (TypeError at attrs.volume)
\* or a date that toISOString rejects (RangeError)
MangaDexElementThrows(chapterData) ==
  \/ ~chapterData.hasAttributes
  \/ chapterData.publishAt # "" /\ ~DateIsValid(chapterData.publishAt)

\* if (!apiResponse.data || apiResponse.data.length === 0) break
MangaDexNoData(body) == ~body.hasData \/ Len(body.data) = 0

\* a full page ends the loop as well
MangaDexLastPage_inclusive(data) == Len(data) <= limit

\* if (apiResponse.data.length < limit) break
MangaDexLastPage(data) == Len(data) < limit

\* offset += limit
MangaDexNextOffset(off) == off + limit

TypeErrorMessage == <<"TypeError: cannot read properties of null or undefined">>
NetworkErrorMessage == <<"Network error">>

\* the while (true) body with a status check that leaves the loop instead of
\* throwing, so that the chapters of the earlier pages are returned
MangaDexFeedStep_swallow(all, off, resp) ==
  LET body == resp.data
      pushed == all \o [i \in 1..Len(body.data) |-> MangaDexChapterResult(body.data[i])]
  IN IF resp.threw THEN
       [next |-> "throw", all |-> all, off |-> off, error |-> NetworkErrorMessage]
     ELSE IF resp.status # 200 \/ body.isNull \/ MangaDexNoData(body) THEN
       [next |-> "break", all |-> all, off |-> off, error |-> <<>>]
     ELSE IF \E i \in 1..Len(body.data) : MangaDexElementThrows(body.data[i]) THEN
       [next |-> "throw", all |-> all, off |-> off, error |-> TypeErrorMessage]
     ELSE IF MangaDexLastPage(body.data) THEN
       [next |-> "break", all |-> pushed, off |-> off, error |-> <<>>]
     ELSE
       [next |-> "loop", all |-> pushed, off |-> MangaDexNextOffset(off), error |-> <<>>]

\* what one pass of the while (true) body does with the response to the
\* request at offset off, allChapters being all: it throws, breaks out of the
\* loop or goes round again
MangaDexFeedStep(all, off, resp) ==
  LET
      RangeErrorMessage == <<"RangeError: Invalid time value">>
  IN
  LET body == resp.data
      bad == {i \in 1..Len(body.data) : MangaDexElementThrows(body.data[i])}
      firstBad == CHOOSE i \in bad : \A j \in bad : i <= j
      pushed == all \o [i \in 1..Len(body.data) |-> MangaDexChapterResult(body.data[i])]
  IN IF resp.threw THEN
       [next |-> "throw", all |-> all, off |-> off, error |-> NetworkErrorMessage]
     ELSE IF resp.status # 200 THEN
       [next |-> "throw", all |-> all, off |-> off,
        error |-> <<"Failed to fetch chapters: ", resp.statusText>>]
     ELSE IF body.isNull THEN
       [next |-> "throw", all |-> all, off |-> off, error |-> TypeErrorMessage]
     ELSE IF MangaDexNoData(body) THEN
       [next |-> "break", all |-> all, off |-> off, error |-> <<>>]
     ELSE IF bad # {} THEN
       [next |-> "throw",
        all |-> all \o [i \in 1..(firstBad - 1) |-> MangaDexChapterResult(body.data[i])],
        off |-> off,
        error |-> IF body.data[firstBad].hasAttributes THEN RangeErrorMessage
                  ELSE TypeErrorMessage]
     ELSE IF MangaDexLastPage(body.data) THEN
       [next |-> "break", all |-> pushed, off |-> off, error |-> <<>>]
     ELSE
       [next |-> "loop", all |-> pushed, off |-> MangaDexNextOffset(off), error |-> <<>>]

SeriesIdentifiers == {<<"7">>, <<"a","-","1">>}

\* a variant that requests the first two pages at once
MangaDex_getChapters_prefetch(seriesIdentifier) ==
  /\ pc = "idle"
  /\ adapter' = "MangaDex" /\ op' = "getChapters" /\ arg' = seriesIdentifier
  /\ mango' = [parseHTML |-> TRUE]
  /\ allChapters' = <<>>
  /\ offset' = 0
  /\ requests' = <<Request("GET", "feed", seriesIdentifier, 0),
                   Request("GET", "feed", seriesIdentifier, limit)>>
  /\ responses' = <<>>
  /\ pc' = "awaiting"
  /\ outcome' = NoOutcome
  /\ errorLogs' = 0
  /\ UNCHANGED <<cursor, allEpisodes, codec, proxy, clock, earlier>>

\* exports.getChapters up to its first await: the request at offset 0
MangaDex_getChapters(seriesIdentifier) ==
  /\ pc = "idle"
  /\ adapter' = "MangaDex" /\ op' = "getChapters" /\ arg' = seriesIdentifier
  /\ mango' = [parseHTML |-> TRUE]
  /\ allChapters' = <<>>
  /\ offset' = 0
  /\ requests' = <<Request("GET", "feed", seriesIdentifier, 0)>>
  /\ responses' = <<>>
  /\ pc' = "awaiting"
  /\ outcome' = NoOutcome
  /\ errorLogs' = 0
  /\ UNCHANGED <<cursor, allEpisodes, codec, proxy, clock, earlier>>

\* exports.getChapters from the answer to a feed request to the next await,
\* the return or the throw (the catch logs the error and rethrows it)
MangaDex_getChapters_resume(resp) ==
  LET
      \* allChapters.reverse(); return allChapters
      MangaDexChaptersResult(all) == Reverse(all)
  IN
  /\ pc = "awaiting" /\ adapter = "MangaDex" /\ op = "getChapters"
  /\ LET step == MangaDexFeedStep(allChapters, offset, resp)
     IN /\ responses' = Logged(responses, Received(resp), MaxPages)
        /\ offset' = step.off
        /\ \/ /\ step.next = "throw"
              /\ allChapters' = step.all
              /\ errorLogs' = errorLogs + 1
              /\ outcome' = Threw(step.error)
              /\ pc' = "done"
              /\ UNCHANGED requests
           \/ /\ step.next = "break"
              /\ allChapters' = MangaDexChaptersResult(step.all)
              /\ outcome' = Returned(allChapters')
              /\ pc' = "done"
              /\ UNCHANGED <<requests, errorLogs>>
           \/ /\ step.next = "loop"
              /\ allChapters' = step.all
              /\ requests' = Logged(requests, Request("GET", "feed", arg, step.off), MaxPages)
              /\ UNCHANGED <<pc, outcome, errorLogs>>
  /\ UNCHANGED <<adapter, op, arg, mango, cursor, allEpisodes, codec, proxy, clock, earlier>>

\* the feed pages the collaborator may serve in answer to the outstanding request
FeedResponses ==
  IF pc = "awaiting" /\ adapter = "MangaDex" /\ op = "getChapters"
  THEN LastFeedPages \cup (IF Len(requests) < MaxPages THEN FullFeedPages(offset) ELSE {})
  ELSE {}

(***************************************************************************)
(* Webtoons: getChapters                                                   *)
(***************************************************************************)

Episodes ==
  LET
      \* one element of result.episodeList; episodeNo is the string form of the
      \* number the API sends
      Episode(episodeNo, episodeTitle, viewerLink, exposureDateMillis) ==
        [episodeNo |-> episodeNo, episodeTitle |-> episodeTitle,
         viewerLink |-> viewerLink, exposureDateMillis |-> exposureDateMillis]
  IN
  { Episode(<<"1">>, <<"E","p"," ","1">>, <<"/","e","-","1">>, ValidMillis),
    Episode(<<"2">>, Null, <<"/","e","-","2","?","n","=","2">>, ""),
    Episode(<<"1","0">>, <<" ","T","e","n"," ">>, <<"/","x">>, InvalidDate),
    Episode(Null, Null, Null, ValidMillis),
    Episode(<<"1">>, <<"B">>, <<>>, ValidMillis) }

\* response.data of the episodes endpoint
EpisodesBody(isNull, success, hasList, episodeList, nextCursor) ==
  [isNull |-> isNull, success |-> success, hasList |-> hasList,
   data |-> episodeList, nextCursor |-> nextCursor]

\* cursors that make the loop go round again, and cursors that end it
NextCursors == {JSNum(100), JSNum(200)}

\* a page lists an episode once
EpisodePages(cursors) ==
  LET
      EpisodeLists ==
        {l \in SeqsUpTo(Episodes, MaxShortPage) :
           \A i, j \in 1..Len(l) : l[i] = l[j] => i = j}
  IN
  {HttpResponse(200, EpisodesBody(FALSE, TRUE, TRUE, l, c)) :
     l \in EpisodeLists, c \in cursors}

\* bodies the code rejects, and the failures
BadEpisodeResponses ==
  LET
      NoEpisodesBody == EpisodesBody(TRUE, FALSE, FALSE, <<>>, JSNull)
  IN
  {HttpResponse(200, NoEpisodesBody),
   HttpResponse(200, EpisodesBody(FALSE, FALSE, TRUE, <<>>, JSNull)),
   HttpResponse(200, EpisodesBody(FALSE, TRUE, FALSE, <<>>, JSNull))}
  \cup FailedResponses(NoEpisodesBody)

\* `${x}` of a string field that may be undefined
Interpolate(x) == IF x = Null THEN <<"u","n","d","e","f","i","n","e","d">> ELSE x

\* `id${seriesId}viewerLink${episode.viewerLink}chNum${episodeNo}`.replace(/-/g, "_")
WebtoonsChapterId(seriesId, viewerLink, episodeNo) ==
  ReplaceAllChar(<<"i","d">> \o seriesId
                 \o <<"v","i","e","w","e","r","L","i","n","k">> \o Interpolate(viewerLink)
                 \o <<"c","h","N","u","m">> \o episodeNo,
                 "-", "_")

\* let publishedAt = new Date().toISOString(), replaced by the episode's date
\* when exposureDateMillis is set and is a date
WebtoonsPublishedAt(episode, now) ==
  IF episode.exposureDateMillis # "" /\ DateIsValid(episode.exposureDateMillis)
  THEN toISOString(episode.exposureDateMillis)
  ELSE now

\* the ChapterResult of one episode (lines 190-227)
WebtoonsChapterResult(seriesId, episode, now) ==
  LET
      \* const episodeNo = episode.episodeNo || "0"
      WebtoonsEpisodeNo(e) ==
        IF e.episodeNo = Null \/ e.episodeNo = <<>> THEN <<"0">>
        ELSE e.episodeNo
  IN
  LET episodeNo == WebtoonsEpisodeNo(episode)
      title == IF episode.episodeTitle = Null \/ episode.episodeTitle = <<>>
               THEN <<"E","p","i","s","o","d","e"," ">> \o episodeNo
               ELSE episode.episodeTitle
  IN [identifier |-> WebtoonsChapterId(seriesId, episode.viewerLink, episodeNo),
      title |-> Trim(title),
      volume |-> <<>>,
      chapter |-> episodeNo,
      pages |-> 0,
      language |-> "en",
      group_id |-> "",
      published_at |-> WebtoonsPublishedAt(episode, now)]

\* a variant that takes the next cursor as it comes
WebtoonsNextCursor_verbatim(nextCursor) == nextCursor

\* cursor = responseData.result.nextCursor || null
WebtoonsNextCursor(nextCursor) == IF Truthy(nextCursor) THEN nextCursor ELSE JSNull

\* the loop body runs once only
WebtoonsLoopAgain_once(cur) == FALSE

\* while (cursor !== null)
WebtoonsLoopAgain(cur) == cur # JSNull

\* a variant that ends the loop on success=false and keeps what it has
WebtoonsEpisodesStep_partial(all, cur, resp) ==
  LET body == resp.data
      cur2 == WebtoonsNextCursor(body.nextCursor)
  IN IF resp.threw THEN
       [next |-> "throw", all |-> all, cur |-> cur, error |-> NetworkErrorMessage]
     ELSE IF resp.status # 200 THEN
       [next |-> "throw", all |-> all, cur |-> cur,
        error |-> <<"Episodes API returned status ", StatusString(resp.status),
                    ": ", resp.statusText>>]
     ELSE IF body.isNull THEN
       [next |-> "throw", all |-> all, cur |-> cur,
        error |-> <<"Episodes API returned no data">>]
     ELSE IF ~body.success THEN
       [next |-> "break", all |-> all, cur |-> cur, error |-> <<>>]
     ELSE IF ~body.hasList THEN
       [next |-> "throw", all |-> all, cur |-> cur,
        error |-> <<"Invalid API response structure">>]
     ELSE
       [next |-> IF WebtoonsLoopAgain(cur2) THEN "loop" ELSE "break",
        all |-> all \o body.data, cur |-> cur2, error |-> <<>>]

\* one pass of the do-while body on the response to the request at the
\* current cursor, allEpisodes being all
WebtoonsEpisodesStep(all, cur, resp) ==
  LET body == resp.data
      cur2 == WebtoonsNextCursor(body.nextCursor)
  IN IF resp.threw THEN
       [next |-> "throw", all |-> all, cur |-> cur, error |-> NetworkErrorMessage]
     ELSE IF resp.status # 200 THEN
       [next |-> "throw", all |-> all, cur |-> cur,
        error |-> <<"Episodes API returned status ", StatusString(resp.status),
                    ": ", resp.statusText>>]
     ELSE IF body.isNull THEN
       [next |-> "throw", all |-> all, cur |-> cur,
        error |-> <<"Episodes API returned no data">>]
     ELSE IF ~body.success THEN
       [next |-> "throw", all |-> all, cur |-> cur,
        error |-> <<"Episodes API returned success=false">>]
     ELSE IF ~body.hasList THEN
       [next |-> "throw", all |-> all, cur |-> cur,
        error |-> <<"Invalid API response structure">>]
     ELSE
       [next |-> IF WebtoonsLoopAgain(cur2) THEN "loop" ELSE "break",
        all |-> all \o body.data, cur |-> cur2, error |-> <<>>]

\* the list returned once the loop has ended (lines 182-237)
WebtoonsChaptersResult(seriesId, all, now) ==
  IF Len(all) = 0 THEN <<>>
  ELSE SortByChapter([i \in 1..Len(all) |-> WebtoonsChapterResult(seriesId, all[i], now)])

\* the values new Date() can take
Nows == {"2026-01-01T00:00:00.000Z", "2026-01-02T00:00:00.000Z"}

\* exports.getChapters up to its first await: the request at cursor 0
Webtoons_getChapters(seriesId) ==
  /\ pc = "idle"
  /\ adapter' = "Webtoons" /\ op' = "getChapters" /\ arg' = seriesId
  /\ mango' = [parseHTML |-> TRUE]
  /\ allEpisodes' = <<>>
  /\ cursor' = JSNum(0)
  /\ requests' = <<Request("GET", "episodes", seriesId, 0)>>
  /\ responses' = <<>>
  /\ pc' = "awaiting"
  /\ outcome' = NoOutcome
  /\ errorLogs' = 0
  /\ UNCHANGED <<offset, allChapters, codec, proxy, clock, earlier>>

\* exports.getChapters from the answer to an episodes request to the next
\* await, the return or the throw (the catch logs and throws a new Error
\* that wraps the message)
Webtoons_getChapters_resume(resp, now) ==
  /\ pc = "awaiting" /\ adapter = "Webtoons" /\ op = "getChapters"
  /\ LET step == WebtoonsEpisodesStep(allEpisodes, cursor, resp)
     IN /\ responses' = Logged(responses, Received(resp), MaxCursorPages)
        /\ allEpisodes' = step.all
        /\ cursor' = step.cur
        /\ \/ /\ step.next = "throw"
              /\ errorLogs' = errorLogs + 1
              /\ outcome' = Threw(<<"Failed to get chapters: ">> \o step.error)
              /\ pc' = "done"
              /\ UNCHANGED <<requests, clock>>
           \/ /\ step.next = "break"
              /\ outcome' = Returned(WebtoonsChaptersResult(arg, step.all, now))
              /\ clock' = IF Len(step.all) = 0 THEN clock ELSE now
              /\ pc' = "done"
              /\ UNCHANGED <<requests, errorLogs>>
           \/ /\ step.next = "loop"
              /\ requests' = Logged(requests, Request("GET", "episodes", arg, step.cur.n), MaxCursorPages)
              /\ UNCHANGED <<pc, outcome, errorLogs, clock>>
  /\ UNCHANGED <<adapter, op, arg, mango, offset, allChapters, codec, proxy, earlier>>

\* the episode pages the collaborator may serve in answer to the outstanding request
EpisodeResponses ==
  LET
      EndCursors == {JSNull, JSNum(0)}

      \* the pages that name a further cursor hold one episode at most, and the
      \* cursor they name lies 100 beyond the cursor of the request
      PagesWithCursor ==
        {HttpResponse(200, EpisodesBody(FALSE, TRUE, TRUE, l, c)) :
           l \in {<<>>} \cup {<<e>> : e \in Episodes},
           c \in {n \in NextCursors : n.n = requests[Len(requests)].page + 100}}
  IN
  IF pc = "awaiting" /\ adapter = "Webtoons" /\ op = "getChapters"
  THEN EpisodePages(EndCursors) \cup BadEpisodeResponses
       \cup (IF Len(requests) < MaxCursorPages THEN PagesWithCursor ELSE {})
  ELSE {}

(***************************************************************************)
(* WeebCentral: getChapters                                                *)
(***************************************************************************)

ChaptersPath == <<"/","c","h","a","p","t","e","r","s","/">>

\* what mango.utils.parseHTML gives for response.data
Document(isNull, elements) == [isNull |-> isNull, data |-> elements]

NoDocument == Document(TRUE, <<>>)

ChapterListResponses ==
  LET
      \* one div.flex.items-center of the chapter list: whether it holds an anchor,
      \* the anchor's href, the text of span.grow > span, the datetime of its time
      \* element ("" when there is none)
      ChapterRow(hasA, href, titleText, datetime) ==
        [hasA |-> hasA, href |-> href, titleText |-> titleText, datetime |-> datetime]

      ChapterRows ==
        { ChapterRow(TRUE, ChaptersPath \o <<"k","1">>, <<"C","h","a","p","t","e","r"," ","1">>, ValidDate),
          ChapterRow(TRUE, ChaptersPath \o <<"k","2">>, <<"C","h","a","p","t","e","r"," ","0","0","2">>, ""),
          ChapterRow(TRUE, ChaptersPath \o <<"k","3">>, <<"C","h","a","p","t","e","r"," ","1","0",".","5">>, "yesterday"),
          ChapterRow(TRUE, ChaptersPath \o <<"k","4">>, <<"O","n","e","s","h","o","t">>, ValidDate),
          ChapterRow(TRUE, ChaptersPath \o <<"k","5">>, <<"C","h","a","p","t","e","r"," ","0">>, ""),
          ChapterRow(TRUE, <<"/","s","e","r","i","e","s","/","x">>, <<"C","h","a","p","t","e","r"," ","1">>, ""),
          ChapterRow(TRUE, Null, <<"C","h","a","p","t","e","r"," ","1">>, ""),
          ChapterRow(FALSE, Null, Null, "") }
  IN
  IF ~(pc = "awaiting" /\ adapter = "WeebCentral" /\ op = "getChapters") THEN {} ELSE
  {HttpResponse(200, Document(FALSE, rows)) : rows \in SeqsUpTo(ChapterRows, MaxShortPage)}
  \cup {HttpResponse(200, NoDocument)}
  \cup FailedResponses(NoDocument)

\* chapterTitle.match(/(\d+(?:\.\d+)?)/): match[1], or Null without a match
MatchChapterNumber(chapterTitle) ==
  LET at == {i \in 1..Len(chapterTitle) : chapterTitle[i] \in Digits}
      first == CHOOSE i \in at : \A j \in at : i <= j
      ip == LeadingDigits(From(chapterTitle, first))
      rest == From(chapterTitle, first + Len(ip))
      fp == IF rest # <<>> /\ rest[1] = "." THEN LeadingDigits(Tail(rest)) ELSE <<>>
  IN IF at = {} THEN Null
     ELSE IF fp # <<>> THEN ip \o <<".">> \o fp
     ELSE ip

\* chapterStr.replace(/^0+/, "")
RECURSIVE StripLeadingZeros(_)
StripLeadingZeros(s) ==
  IF s # <<>> /\ s[1] = "0" THEN StripLeadingZeros(Tail(s)) ELSE s

\* a variant that strips one leading zero
cleanChapterNumber_once(chapterStr) ==
  LET cleaned == IF chapterStr # <<>> /\ chapterStr[1] = "0" THEN Tail(chapterStr)
                 ELSE chapterStr
  IN IF cleaned = <<>> THEN <<"0">> ELSE cleaned

\* function cleanChapterNumber(chapterStr)
cleanChapterNumber(chapterStr) ==
  LET cleaned == StripLeadingZeros(chapterStr)
  IN IF cleaned = <<>> THEN <<"0">> ELSE cleaned

\* str.split(sep)[1], or Null when split gives a single part
SecondPart(str, sep) ==
  LET i == IndexOf(str, sep)
      rest == From(str, i + Len(sep))
      j == IndexOf(rest, sep)
  IN IF i = 0 THEN Null
     ELSE IF j = 0 THEN rest
     ELSE SubSeq(rest, 1, j - 1)

\* the entry pushed for a row that is not skipped (lines 226-264)
WeebCentralChapterResult(row) ==
  LET chapterTitle == IF row.titleText = Null \/ row.titleText = <<>> THEN <<>>
                      ELSE Trim(row.titleText)
      match == MatchChapterNumber(chapterTitle)
  IN [identifier |-> SecondPart(row.href, ChaptersPath),
      title |-> chapterTitle,
      chapter |-> IF match = Null THEN <<>> ELSE cleanChapterNumber(match),
      published_at |-> row.datetime]

\* the chapters array after the for loop over the rows
RECURSIVE WeebCentralCollect(_)
WeebCentralCollect(rows) ==
  LET
      \* the row is skipped: no anchor, no href, or no chapter id in the href
      WeebCentralRowSkipped(row) ==
        \/ ~row.hasA
        \/ row.href = Null \/ row.href = <<>>
        \/ SecondPart(row.href, ChaptersPath) \in {Null, <<>>}
  IN
  IF rows = <<>> THEN <<>>
  ELSE (IF WeebCentralRowSkipped(Head(rows)) THEN <<>>
        ELSE <<WeebCentralChapterResult(Head(rows))>>)
       \o WeebCentralCollect(Tail(rows))

\* getChapters that takes an empty chapters array for a result, as the
\* API adapters do
WeebCentralChaptersOutcome_lenient(resp, utils) ==
  LET chapters == WeebCentralCollect(resp.data.data)
  IN IF resp.threw THEN Threw(NetworkErrorMessage)
     ELSE IF resp.status # 200 THEN Threw(<<"Failed to fetch chapters: ", resp.statusText>>)
     ELSE IF ~utils.parseHTML THEN Threw(<<"parseHTML not available in mango.utils">>)
     ELSE IF resp.data.isNull THEN Threw(TypeErrorMessage)
     ELSE Returned(SortByChapter(Reverse(chapters)))

\* the outcome of getChapters on the answer resp (lines 202-282)
WeebCentralChaptersOutcome(resp, utils) ==
  LET
      \* chapters.reverse(); chapters.sort(...)
      WeebCentralChaptersResult(chapters) == SortByChapter(Reverse(chapters))
  IN
  LET chapters == WeebCentralCollect(resp.data.data)
  IN IF resp.threw THEN Threw(NetworkErrorMessage)
     ELSE IF resp.status # 200 THEN Threw(<<"Failed to fetch chapters: ", resp.statusText>>)
     ELSE IF ~utils.parseHTML THEN Threw(<<"parseHTML not available in mango.utils">>)
     ELSE IF resp.data.isNull THEN Threw(TypeErrorMessage)
     ELSE IF Len(chapters) = 0 THEN Threw(<<"No chapters found">>)
     ELSE Returned(WeebCentralChaptersResult(chapters))

Mangos == {[parseHTML |-> TRUE], [parseHTML |-> FALSE]}

\* exports.getChapters up to its await: the request for the chapter list
WeebCentral_getChapters(seriesIdentifier, m) ==
  /\ pc = "idle"
  /\ adapter' = "WeebCentral" /\ op' = "getChapters" /\ arg' = seriesIdentifier
  /\ mango' = m
  /\ requests' = <<Request("GET", "full-chapter-list", seriesIdentifier, 0)>>
  /\ responses' = <<>>
  /\ pc' = "awaiting"
  /\ outcome' = NoOutcome
  /\ errorLogs' = 0
  /\ UNCHANGED <<cursor, offset, allEpisodes, allChapters, codec, proxy, clock, earlier>>

\* exports.getChapters from the answer on: the list, or the throw that the
\* catch logs and rethrows
WeebCentral_getChapters_resume(resp) ==
  /\ pc = "awaiting" /\ adapter = "WeebCentral" /\ op = "getChapters"
  /\ responses' = Append(responses, Received(resp))
  /\ outcome' = WeebCentralChaptersOutcome(resp, mango)
  /\ errorLogs' = IF outcome'.kind = "threw" THEN errorLogs + 1 ELSE errorLogs
  /\ pc' = "done"
  /\ UNCHANGED <<adapter, op, arg, mango, cursor, offset, allEpisodes, allChapters,
                 requests, codec, proxy, clock, earlier>>

(***************************************************************************)
(* The image-proxy convention                                              *)
(***************************************************************************)
PROXY_BASE_URL ==
  <<"h","t","t","p",":","/","/","l","o","c","a","l","h","o","s","t",":","8","0","8","0","/","a","p",
    "i","/","p","r","o","x","y","/","r","e","s","o","u","r","c","e">>

\* the concatenation of parts[lo], ..., parts[hi]
RECURSIVE ConcatRange(_, _, _)
ConcatRange(parts, lo, hi) ==
  IF lo > hi THEN <<>>
  ELSE IF lo = hi THEN parts[lo]
  ELSE LET mid == (lo + hi) \div 2
       IN ConcatRange(parts, lo, mid) \o ConcatRange(parts, mid + 1, hi)

encodeURIComponent(s) ==
  LET
      \* encodeURIComponent of one character: everything but letters, digits and
      \* - _ . ! ~ * ' ( ) is percent-encoded (the characters of the model's URLs)
      EncodeChar(c) ==
        CASE c = "/" -> <<"%","2","F">>
          [] c = ":" -> <<"%","3","A">>
          [] c = "?" -> <<"%","3","F">>
          [] c = "=" -> <<"%","3","D">>
          [] c = "&" -> <<"%","2","6">>
          [] c = " " -> <<"%","2","0">>
          [] c = "%" -> <<"%","2","5">>
          [] c = ";" -> <<"%","3","B">>
          [] c = "," -> <<"%","2","C">>
          [] OTHER -> <<c>>
  IN
  ConcatRange([i \in 1..Len(s) |-> EncodeChar(s[i])], 1, Len(s))

\* the options of constructProxyUrl; an absent field is Null
ProxyOptions(referer, userAgent, origin) ==
  [referer |-> referer, userAgent |-> userAgent, origin |-> origin]

\* if (options.x): the field is given and not empty
Given(x) == x # Null /\ x # <<>>

\* a variant that appends every option field but the absent ones
constructProxyUrl_eager(imageUrl, options) ==
  PROXY_BASE_URL \o <<"?">>
  \o <<"u","r","l","=">> \o encodeURIComponent(imageUrl)
  \o (IF options.referer # Null
      THEN <<"&","r","e","f","e","r","e","r","=">> \o encodeURIComponent(options.referer) ELSE <<>>)
  \o (IF options.userAgent # Null
      THEN <<"&","u","s","e","r","-","a","g","e","n","t","=">> \o encodeURIComponent(options.userAgent) ELSE <<>>)
  \o (IF options.origin # Null
      THEN <<"&","o","r","i","g","i","n","=">> \o encodeURIComponent(options.origin) ELSE <<>>)

\* function constructProxyUrl(imageUrl, options) of WeebCentral and Webtoons
constructProxyUrl(imageUrl, options) ==
  PROXY_BASE_URL \o <<"?">>
  \o <<"u","r","l","=">> \o encodeURIComponent(imageUrl)
  \o (IF Given(options.referer)
      THEN <<"&","r","e","f","e","r","e","r","=">> \o encodeURIComponent(options.referer) ELSE <<>>)
  \o (IF Given(options.userAgent)
      THEN <<"&","u","s","e","r","-","a","g","e","n","t","=">> \o encodeURIComponent(options.userAgent) ELSE <<>>)
  \o (IF Given(options.origin)
      THEN <<"&","o","r","i","g","i","n","=">> \o encodeURIComponent(options.origin) ELSE <<>>)

\* a variant that passes the image URL on as it is
constructProxyUrlMangaDex_raw(imageUrl, options) ==
  PROXY_BASE_URL \o <<"?">>
  \o <<"u","r","l","=">> \o imageUrl
  \o (IF Given(options.referer)
      THEN <<"&","r","e","f","e","r","e","r","=">> \o encodeURIComponent(options.referer) ELSE <<>>)

\* function constructProxyUrl(imageUrl, options) of MangaDex: referer only
constructProxyUrlMangaDex(imageUrl, options) ==
  PROXY_BASE_URL \o <<"?">>
  \o <<"u","r","l","=">> \o encodeURIComponent(imageUrl)
  \o (IF Given(options.referer)
      THEN <<"&","r","e","f","e","r","e","r","=">> \o encodeURIComponent(options.referer) ELSE <<>>)

(***************************************************************************)
(* MangaDex: getPageURLs                                                   *)
(***************************************************************************)
MANGA_DEX_BASE_URL == <<"h","t","t","p","s",":","/","/","m","a","n","g","a","d","e","x",".","o","r","g">>

\* response.data of the at-home server endpoint: baseUrl, chapter.hash and
\* chapter.data (hasFiles is false when chapter.data is absent)
AtHomeBody(isNull, hasChapter, baseUrl, hash, hasFiles, files) ==
  [isNull |-> isNull, hasChapter |-> hasChapter, baseUrl |-> baseUrl, hash |-> hash,
   hasFiles |-> hasFiles, data |-> files]

AtHomeResponses ==
  LET
      NoAtHomeBody == AtHomeBody(TRUE, FALSE, Null, Null, FALSE, <<>>)

      PageFiles == {<<"1",".","p","n","g">>, <<"2",".","p","n","g">>}

      AtHomeBaseUrl == <<"h","t","t","p","s",":","/","/","s","2",".","m","d">>
  IN
  IF ~(pc = "awaiting" /\ adapter = "MangaDex" /\ op = "getPageURLs") THEN {} ELSE
  {HttpResponse(200, AtHomeBody(FALSE, TRUE, AtHomeBaseUrl, <<"h","9">>, TRUE, files)) :
     files \in SeqsUpTo(PageFiles, MaxShortPage)}
  \cup {HttpResponse(200, AtHomeBody(FALSE, TRUE, AtHomeBaseUrl, <<"h","9">>, FALSE, <<>>)),
        HttpResponse(200, AtHomeBody(FALSE, FALSE, AtHomeBaseUrl, Null, FALSE, <<>>)),
        HttpResponse(200, NoAtHomeBody)}
  \cup FailedResponses(NoAtHomeBody)

\* `${baseURL}/data/${hash}/${pageFile}` wrapped by constructProxyUrl
MangaDexPageURL(baseURL, hash, pageFile) ==
  constructProxyUrlMangaDex(
    Interpolate(baseURL) \o <<"/","d","a","t","a","/">> \o Interpolate(hash) \o <<"/">> \o pageFile,
    ProxyOptions(MANGA_DEX_BASE_URL \o <<"/">>, Null, Null))

\* const pageFiles = apiResponse.chapter.data || []
MangaDexPageFiles(body) == IF body.hasFiles THEN body.data ELSE <<>>

\* getPageURLs with a check of pageURLs.length, as the other adapters have
MangaDexPagesOutcome_checked(resp) ==
  LET body == resp.data
      pageFiles == MangaDexPageFiles(body)
  IN IF resp.threw THEN Threw(NetworkErrorMessage)
     ELSE IF resp.status # 200 THEN Threw(<<"Failed to fetch page URLs: ", resp.statusText>>)
     ELSE IF body.isNull \/ ~body.hasChapter THEN Threw(TypeErrorMessage)
     ELSE IF Len(pageFiles) = 0 THEN Threw(<<"No pages found">>)
     ELSE Returned([i \in 1..Len(pageFiles) |->
                      MangaDexPageURL(body.baseUrl, body.hash, pageFiles[i])])

\* the outcome of getPageURLs on the answer resp (lines 251-270)
MangaDexPagesOutcome(resp) ==
  LET body == resp.data
      pageFiles == MangaDexPageFiles(body)
  IN IF resp.threw THEN Threw(NetworkErrorMessage)
     ELSE IF resp.status # 200 THEN Threw(<<"Failed to fetch page URLs: ", resp.statusText>>)
     ELSE IF body.isNull \/ ~body.hasChapter THEN Threw(TypeErrorMessage)
     ELSE Returned([i \in 1..Len(pageFiles) |->
                      MangaDexPageURL(body.baseUrl, body.hash, pageFiles[i])])

MangaDexChapterIdentifiers == {<<"c","1">>, <<"c","2">>}

\* exports.getPageURLs up to its await: the at-home server request
MangaDex_getPageURLs(chapterIdentifier) ==
  /\ pc = "idle"
  /\ adapter' = "MangaDex" /\ op' = "getPageURLs" /\ arg' = chapterIdentifier
  /\ mango' = [parseHTML |-> TRUE]
  /\ requests' = <<Request("GET", "at-home/server", chapterIdentifier, 0)>>
  /\ responses' = <<>>
  /\ pc' = "awaiting"
  /\ outcome' = NoOutcome
  /\ errorLogs' = 0
  /\ UNCHANGED <<cursor, offset, allEpisodes, allChapters, codec, proxy, clock, earlier>>

\* exports.getPageURLs from the answer on: the list, or the throw that the
\* catch logs and rethrows
MangaDex_getPageURLs_resume(resp) ==
  /\ pc = "awaiting" /\ adapter = "MangaDex" /\ op = "getPageURLs"
  /\ responses' = Append(responses, Received(resp))
  /\ outcome' = MangaDexPagesOutcome(resp)
  /\ errorLogs' = IF outcome'.kind = "threw" THEN errorLogs + 1 ELSE errorLogs
  /\ pc' = "done"
  /\ UNCHANGED <<adapter, op, arg, mango, cursor, offset, allEpisodes, allChapters,
                 requests, codec, proxy, clock, earlier>>

(***************************************************************************)
(* WeebCentral: getPageURLs                                                *)
(***************************************************************************)
WEEBCENTRAL_BASE_URL == <<"h","t","t","p","s",":","/","/","w","e","e","b","c","e","n","t","r","a","l",".","c","o","m">>

USER_AGENT ==
  <<"M","o","z","i","l","l","a","/","5",".","0"," ","(","W","i","n","d","o","w","s"," ","N","T"," ",
    "1","0",".","0",";"," ","W","i","n","6","4",";"," ","x","6","4",")"," ","A","p","p","l","e","W",
    "e","b","K","i","t","/","5","3","7",".","3","6"," ","(","K","H","T","M","L",","," ","l","i","k",
    "e"," ","G","e","c","k","o",")"," ","C","h","r","o","m","e","/","1","2","0",".","0",".","0",".",
    "0"," ","S","a","f","a","r","i","/","5","3","7",".","3","6">>

ImageListResponses ==
  LET
      \* an img element: its src attribute (Null when absent) and whether it lies
      \* under section.flex-1
      Img(src, inSection) == [src |-> src, inSection |-> inSection]

      ImageUrl1 == <<"h","t","t","p","s",":","/","/","c","d","n",".","x","/","1",".","j","p","g">>

      ImageUrl2 == <<"h","t","t","p",":","/","/","i",".","y","/","2",".","j","p","g">>

      Imgs ==
        { Img(ImageUrl1, TRUE), Img(ImageUrl2, FALSE), Img(<<"/","p",".","j","p","g">>, TRUE),
          Img(<<" ">>, TRUE), Img(<<>>, FALSE), Img(Null, TRUE) }
  IN
  IF ~(pc = "awaiting" /\ adapter = "WeebCentral" /\ op = "getPageURLs") THEN {} ELSE
  {HttpResponse(200, Document(FALSE, imgs)) : imgs \in SeqsUpTo(Imgs, MaxShortPage)}
  \cup {HttpResponse(200, NoDocument)}
  \cup FailedResponses(NoDocument)

\* s with the elements that satisfy keep, in order
RECURSIVE SelectImgs(_, _)
SelectImgs(s, inSectionOnly) ==
  IF s = <<>> THEN <<>>
  ELSE (IF inSectionOnly => Head(s).inSection THEN <<Head(s)>> ELSE <<>>)
       \o SelectImgs(Tail(s), inSectionOnly)

\* a variant that takes every img of the document
WeebCentralImages_all(elements) == SelectImgs(elements, FALSE)

\* doc.querySelectorAll("section.flex-1 img"), or doc.querySelectorAll("img")
\* when that is empty
WeebCentralImages(elements) ==
  IF SelectImgs(elements, TRUE) # <<>> THEN SelectImgs(elements, TRUE)
  ELSE SelectImgs(elements, FALSE)

\* new URL(src).origin: scheme and host of an absolute http(s) URL; Null
\* when new URL throws
UrlOrigin(src) ==
  LET scheme == IF StartsWith(src, <<"h","t","t","p","s",":","/","/">>) THEN <<"h","t","t","p","s",":","/","/">>
                ELSE IF StartsWith(src, <<"h","t","t","p",":","/","/">>) THEN <<"h","t","t","p",":","/","/">>
                ELSE <<>>
      rest == From(src, Len(scheme) + 1)
      slash == IndexOf(rest, <<"/">>)
      host == IF slash = 0 THEN rest ELSE SubSeq(rest, 1, slash - 1)
  IN IF scheme = <<>> \/ host = <<>> THEN Null ELSE scheme \o host

\* the proxy URL pushed for one image (lines 331-353)
WeebCentralPageURL(src, chapterIdentifier) ==
  LET origin == UrlOrigin(src)
      imageOrigin == IF origin = Null THEN WEEBCENTRAL_BASE_URL ELSE origin
      imageReferer == IF origin = Null
                      THEN WEEBCENTRAL_BASE_URL \o ChaptersPath \o chapterIdentifier
                      ELSE origin \o <<"/">>
  IN constructProxyUrl(src, ProxyOptions(imageReferer, USER_AGENT, imageOrigin))

RECURSIVE WeebCentralPages(_, _)
WeebCentralPages(images, chapterIdentifier) ==
  LET
      \* if (src && src.trim() !== "")
      WeebCentralHasSrc(img) == img.src # Null /\ img.src # <<>> /\ Trim(img.src) # <<>>
  IN
  IF images = <<>> THEN <<>>
  ELSE (IF WeebCentralHasSrc(Head(images))
        THEN <<WeebCentralPageURL(Head(images).src, chapterIdentifier)>> ELSE <<>>)
       \o WeebCentralPages(Tail(images), chapterIdentifier)

\* getPageURLs without the check of pages.length
WeebCentralPagesOutcome_unchecked(resp, utils, chapterIdentifier) ==
  LET pages == WeebCentralPages(WeebCentralImages(resp.data.data), chapterIdentifier)
  IN IF resp.threw THEN Threw(NetworkErrorMessage)
     ELSE IF resp.status # 200 THEN Threw(<<"Failed to fetch page URLs: ", resp.statusText>>)
     ELSE IF ~utils.parseHTML THEN Threw(<<"parseHTML not available in mango.utils">>)
     ELSE IF resp.data.isNull THEN Threw(TypeErrorMessage)
     ELSE Returned(pages)

\* the outcome of getPageURLs on the answer resp (lines 308-362)
WeebCentralPagesOutcome(resp, utils, chapterIdentifier) ==
  LET pages == WeebCentralPages(WeebCentralImages(resp.data.data), chapterIdentifier)
  IN IF resp.threw THEN Threw(NetworkErrorMessage)
     ELSE IF resp.status # 200 THEN Threw(<<"Failed to fetch page URLs: ", resp.statusText>>)
     ELSE IF ~utils.parseHTML THEN Threw(<<"parseHTML not available in mango.utils">>)
     ELSE IF resp.data.isNull THEN Threw(TypeErrorMessage)
     ELSE IF Len(pages) = 0 THEN Threw(<<"No pages found">>)
     ELSE Returned(pages)

WeebCentralChapterIdentifiers == {<<"k","1">>, <<"k","2">>}

\* exports.getPageURLs up to its await: the request for the image list
WeebCentral_getPageURLs(chapterIdentifier, m) ==
  /\ pc = "idle"
  /\ adapter' = "WeebCentral" /\ op' = "getPageURLs" /\ arg' = chapterIdentifier
  /\ mango' = m
  /\ requests' = <<Request("GET", "images", chapterIdentifier, 0)>>
  /\ responses' = <<>>
  /\ pc' = "awaiting"
  /\ outcome' = NoOutcome
  /\ errorLogs' = 0
  /\ UNCHANGED <<cursor, offset, allEpisodes, allChapters, codec, proxy, clock, earlier>>

\* exports.getPageURLs from the answer on: the list, or the throw that the
\* catch logs and rethrows
WeebCentral_getPageURLs_resume(resp) ==
  /\ pc = "awaiting" /\ adapter = "WeebCentral" /\ op = "getPageURLs"
  /\ responses' = Append(responses, Received(resp))
  /\ outcome' = WeebCentralPagesOutcome(resp, mango, arg)
  /\ errorLogs' = IF outcome'.kind = "threw" THEN errorLogs + 1 ELSE errorLogs
  /\ pc' = "done"
  /\ UNCHANGED <<adapter, op, arg, mango, cursor, offset, allEpisodes, allChapters,
                 requests, codec, proxy, clock, earlier>>

(***************************************************************************)
(* Webtoons: getPageURLs                                                   *)
(***************************************************************************)
WEBTOONS_BASE_URL == <<"h","t","t","p","s",":","/","/","w","w","w",".","w","e","b","t","o","o","n","s",".","c","o","m">>

NoMatch == [matched |-> FALSE, mangaID |-> <<>>, viewerLink |-> <<>>, chNum |-> <<>>]

\* the match of /id(\d+)viewerLink(.+)chNum(.+)/ that starts at position p of
\* chapterId, NoMatch when there is none: "id", the whole run of digits, the
\* tag, then (.+) greedy, so that the last "chNum" that leaves a character on
\* each side ends group 2, and group 3 runs to the end of the string
MatchAt(chapterId, p) ==
  LET
      ViewerLinkTag == <<"v","i","e","w","e","r","L","i","n","k">>

      ChNumTag == <<"c","h","N","u","m">>
  IN
  LET afterId == From(chapterId, p + 2)
      digits == LeadingDigits(afterId)
      afterDigits == From(afterId, Len(digits) + 1)
      body == From(afterDigits, Len(ViewerLinkTag) + 1)
      cuts == {j \in 2..(Len(body) - Len(ChNumTag)) :
                 SubSeq(body, j, j + Len(ChNumTag) - 1) = ChNumTag}
      cut == CHOOSE j \in cuts : \A k \in cuts : j >= k
  IN IF /\ StartsWith(From(chapterId, p), <<"i","d">>)
        /\ digits # <<>>
        /\ StartsWith(afterDigits, ViewerLinkTag)
        /\ cuts # {}
     THEN [matched |-> TRUE, mangaID |-> digits,
           viewerLink |-> SubSeq(body, 1, cut - 1),
           chNum |-> From(body, cut + Len(ChNumTag))]
     ELSE NoMatch

\* a variant that takes any string for an identifier
MatchChapterId_any(chapterId) ==
  [matched |-> TRUE, mangaID |-> <<"0">>, viewerLink |-> chapterId, chNum |-> <<"0">>]

\* chapterId.match(/id(\d+)viewerLink(.+)chNum(.+)/): the leftmost match
MatchChapterId(chapterId) ==
  LET starts == {p \in 1..Len(chapterId) : MatchAt(chapterId, p).matched}
      first == CHOOSE p \in starts : \A q \in starts : p <= q
  IN IF starts = {} THEN NoMatch ELSE MatchAt(chapterId, first)

\* the viewer URL of a decoded viewerLink (lines 266-276)
WebtoonsViewerUrl(viewerLink) ==
  IF StartsWith(viewerLink, <<"h","t","t","p",":","/","/">>) \/ StartsWith(viewerLink, <<"h","t","t","p","s",":","/","/">>) THEN viewerLink
  ELSE WEBTOONS_BASE_URL
       \o (IF StartsWith(viewerLink, <<"/">>) THEN viewerLink ELSE <<"/">> \o viewerLink)

ViewerResponses ==
  LET
      \* the viewer page: whether it holds the div with id _imageList, and the
      \* data-url attribute of each img of that div (Null when the img has none)
      ViewerPage(hasImageList, dataUrls) == [hasImageList |-> hasImageList, data |-> dataUrls]

      DataUrls == {<<"h","t","t","p","s",":","/","/","w","e","b","t","o","o","n","-","p","h","i","n","f",".","p","s","t","a","t","i","c",".","n","e","t","/","1",".","j","p","g">>, <<"h","t","t","p","s",":","/","/","w",".","n","e","t","/","2",".","j","p","g">>, Null, <<>>}
  IN
  IF ~(pc = "awaiting" /\ adapter = "Webtoons" /\ op = "getPageURLs") THEN {} ELSE
  {HttpResponse(200, ViewerPage(TRUE, urls)) : urls \in SeqsUpTo(DataUrls, MaxShortPage)}
  \cup {HttpResponse(200, ViewerPage(FALSE, <<>>))}
  \cup FailedResponses(ViewerPage(FALSE, <<>>))

\* the matches of /<img[^>]+data-url=["']([^"']+)["']/gi in the div: the
\* data-url attributes that are present and not empty, in order
RECURSIVE WebtoonsImageUrls(_)
WebtoonsImageUrls(dataUrls) ==
  IF dataUrls = <<>> THEN <<>>
  ELSE (IF Given(Head(dataUrls)) THEN <<Head(dataUrls)>> ELSE <<>>)
       \o WebtoonsImageUrls(Tail(dataUrls))

\* the outcome of getPageURLs on the answer resp (lines 280-324); nothing
\* catches a rejected request
WebtoonsPagesOutcome(resp) ==
  LET
      \* constructProxyUrl(imageUrl, { referer: BASE_URL + "/" })
      WebtoonsPageURL(imageUrl) ==
        constructProxyUrl(imageUrl, ProxyOptions(WEBTOONS_BASE_URL \o <<"/">>, Null, Null))
  IN
  LET imageUrls == WebtoonsImageUrls(resp.data.data)
  IN IF resp.threw THEN Threw(NetworkErrorMessage)
     ELSE IF resp.status # 200 THEN
       Threw(<<"Failed to get chapter viewer: ", StatusString(resp.status), " ", resp.statusText>>)
     ELSE IF ~resp.data.hasImageList THEN Threw(<<"_imageList div not found in chapter viewer">>)
     ELSE IF Len(imageUrls) = 0 THEN Threw(<<"No images found in _imageList div">>)
     ELSE Returned([i \in 1..Len(imageUrls) |-> WebtoonsPageURL(imageUrls[i])])

\* the mango.log.error calls of getPageURLs when it throws: it has no catch
WebtoonsPagesErrorLogs(out) == 0

\* identifiers as getChapters builds them, and strings that are none
WebtoonsChapterIdentifiers ==
  { WebtoonsChapterId(<<"7">>, <<"/","e","-","1">>, <<"1">>),
    WebtoonsChapterId(<<"7">>, <<"h","t","t","p","s",":","/","/","m",".","w",".","c","o","m","/","v","?","e","=","2">>, <<"2">>),
    WebtoonsChapterId(<<"7">>, <<"x">>, <<"3">>),
    WebtoonsChapterId(<<"a","-","1">>, <<"/","x">>, <<"1">>),
    <<"i","n","v","a","l","i","d","-","i","d">>,
    <<"i","d","7","v","i","e","w","e","r","L","i","n","k","c","h","N","u","m","1">>,
    <<"i","d","7","v","i","e","w","e","r","L","i","n","k","/","x","c","h","N","u","m">>,
    <<"x","i","d","7","v","i","e","w","e","r","L","i","n","k","/","x","c","h","N","u","m","1">> }

\* exports.getPageURLs up to its await: the throw on an identifier that does
\* not match, else the request for the viewer page
Webtoons_getPageURLs(chapterId) ==
  /\ pc = "idle"
  /\ adapter' = "Webtoons" /\ op' = "getPageURLs" /\ arg' = chapterId
  /\ mango' = [parseHTML |-> TRUE]
  /\ responses' = <<>>
  /\ LET idMatch == MatchChapterId(chapterId)
     IN IF ~idMatch.matched
        THEN /\ outcome' = Threw(<<"Invalid chapter ID format">>)
             /\ errorLogs' = WebtoonsPagesErrorLogs(outcome')
             /\ requests' = <<>>
             /\ pc' = "done"
        ELSE /\ outcome' = NoOutcome
             /\ errorLogs' = 0
             /\ requests' = <<Request("GET", "viewer", WebtoonsViewerUrl(idMatch.viewerLink), 0)>>
             /\ pc' = "awaiting"
  /\ UNCHANGED <<cursor, offset, allEpisodes, allChapters, codec, proxy, clock, earlier>>

\* exports.getPageURLs from the answer on: the list or the throw
Webtoons_getPageURLs_resume(resp) ==
  /\ pc = "awaiting" /\ adapter = "Webtoons" /\ op = "getPageURLs"
  /\ responses' = Append(responses, Received(resp))
  /\ outcome' = WebtoonsPagesOutcome(resp)
  /\ errorLogs' = IF outcome'.kind = "threw" THEN errorLogs + WebtoonsPagesErrorLogs(outcome')
                  ELSE errorLogs
  /\ pc' = "done"
  /\ UNCHANGED <<adapter, op, arg, mango, cursor, offset, allEpisodes, allChapters,
                 requests, codec, proxy, clock, earlier>>

(***************************************************************************)
(* search                                                                  *)
(***************************************************************************)
Queries == {<<"o","n","e"," ","p">>}

Untitled == <<"U","n","t","i","t","l","e","d">>

\* s.replace(sub, rep) with a string pattern: the first occurrence only
ReplaceFirst(s, sub, rep) ==
  LET i == IndexOf(s, sub)
  IN IF i = 0 THEN s
     ELSE SubSeq(s, 1, i - 1) \o rep \o From(s, i + Len(sub))

\* s.split(sep)[0]
FirstPart(s, sep) ==
  LET i == IndexOf(s, sep)
  IN IF i = 0 THEN s ELSE SubSeq(s, 1, i - 1)

ProxyHost == <<"h","t","t","p",":","/","/","l","o","c","a","l","h","o","s","t",":","8","0","8","0">>

(***************************************************************************)
(* MangaDex: search                                                        *)
(***************************************************************************)
COVER_ART_BASE_URL == <<"h","t","t","p","s",":","/","/","u","p","l","o","a","d","s",".","m","a","n","g","a","d","e","x",".","o","r","g">>

\* a relationship of a manga, or an element of the included array: type, id
\* and attributes.fileName || attributes.file_name (Null when absent)
Related(type, id, fileName) == [type |-> type, id |-> id, fileName |-> fileName]

\* response.data of the manga endpoint (isArray: data is an array)
MangaBody(isNull, isArray, data, included) ==
  [isNull |-> isNull, isArray |-> isArray, data |-> data, included |-> included]

MangaResponses ==
  LET
      \* an element of the data array: title is attributes.title as the sequence of
      \* its <<locale, text>> entries (hasTitle is false when it is absent)
      MangaData(id, hasAttributes, hasTitle, title, relationships) ==
        [id |-> id, hasAttributes |-> hasAttributes, hasTitle |-> hasTitle,
         title |-> title, relationships |-> relationships]

      CoverA == Related("cover_art", <<"r","1">>, <<"a",".","j","p","g">>)

      CoverNoName == Related("cover_art", <<"r","2">>, Null)

      Author == Related("author", <<"r","3">>, Null)

      Mangas ==
        { MangaData(<<"m","1">>, TRUE, TRUE, <<<<"en", <<"O","n","e">>>>>>, <<Author, CoverA>>),
          MangaData(<<"m","2">>, TRUE, TRUE, <<<<"ja", <<"W","a","n">>>>, <<"en", <<>>>>>>, <<CoverNoName>>),
          MangaData(<<"m","3">>, TRUE, TRUE, <<>>, <<>>),
          MangaData(<<"m","4">>, TRUE, FALSE, <<>>, <<CoverA>>),
          MangaData(Null, TRUE, TRUE, <<<<"en", <<"O","n","e">>>>>>, <<CoverA>>),
          MangaData(<<"m","6">>, FALSE, FALSE, <<>>, <<>>) }

      Includeds ==
        { <<>>,
          <<Related("cover_art", <<"r","2">>, <<"b",".","p","n","g">>)>>,
          <<Related("author", <<"r","2">>, <<"b",".","p","n","g">>), Related("cover_art", <<"r","2">>, Null)>> }

      NoMangaBody == MangaBody(TRUE, FALSE, <<>>, <<>>)
  IN
  IF ~(pc = "awaiting" /\ adapter = "MangaDex" /\ op = "search") THEN {} ELSE
  {HttpResponse(200, MangaBody(FALSE, TRUE, d, inc)) :
     d \in SeqsUpTo(Mangas, MaxShortPage), inc \in Includeds}
  \cup {HttpResponse(200, MangaBody(FALSE, FALSE, <<>>, <<>>)), HttpResponse(200, NoMangaBody)}
  \cup FailedResponses(NoMangaBody)

\* coverArtMap.get(id) after the loop over included (a later entry with the
\* same id replaces an earlier one); Null when the map has no such key
RECURSIVE CoverArtLookup(_, _)
CoverArtLookup(included, id) ==
  IF included = <<>> THEN Null
  ELSE LET item == included[Len(included)]
       IN IF item.type = "cover_art" /\ Given(item.id) /\ Given(item.fileName) /\ item.id = id
          THEN item.fileName
          ELSE CoverArtLookup(SubSeq(included, 1, Len(included) - 1), id)

\* the title of lines 89-103: title.en, else the text of the first locale
MangaDexTitle(title) ==
  LET en == {i \in 1..Len(title) : title[i][1] = "en" /\ title[i][2] # <<>>}
      firstEn == CHOOSE i \in en : \A j \in en : i <= j
  IN IF en # {} THEN title[firstEn][2]
     ELSE IF Len(title) > 0 THEN title[1][2]
     ELSE <<>>

\* the loop over relationships of lines 109-122
RECURSIVE MangaDexCoverFileName(_, _)
MangaDexCoverFileName(relationships, included) ==
  IF relationships = <<>> THEN <<>>
  ELSE LET rel == Head(relationships)
       IN IF rel.type = "cover_art" /\ Given(rel.fileName) THEN rel.fileName
          ELSE IF rel.type = "cover_art" /\ Given(rel.id) /\ CoverArtLookup(included, rel.id) # Null
          THEN CoverArtLookup(included, rel.id)
          ELSE MangaDexCoverFileName(Tail(relationships), included)

\* a variant whose cover URL leaves out the manga id
MangaDexCoverURL_flat(id, coverFileName) ==
  IF coverFileName # <<>> /\ Given(id)
  THEN ReplaceFirst(
         constructProxyUrlMangaDex(
           COVER_ART_BASE_URL \o <<"/","c","o","v","e","r","s","/">> \o coverFileName \o <<".","2","5","6",".","j","p","g">>,
           ProxyOptions(MANGA_DEX_BASE_URL \o <<"/">>, Null, Null)),
         ProxyHost, <<>>)
  ELSE <<>>

\* the cover URL of lines 125-134
MangaDexCoverURL(id, coverFileName) ==
  IF coverFileName # <<>> /\ Given(id)
  THEN ReplaceFirst(
         constructProxyUrlMangaDex(
           COVER_ART_BASE_URL \o <<"/","c","o","v","e","r","s","/">> \o id \o <<"/">> \o coverFileName \o <<".","2","5","6",".","j","p","g">>,
           ProxyOptions(MANGA_DEX_BASE_URL \o <<"/">>, Null, Null)),
         ProxyHost, <<>>)
  ELSE <<>>

MangaDexSearchResult(mangaData, included) ==
  LET title == MangaDexTitle(mangaData.title)
  IN [title |-> IF title = <<>> THEN Untitled ELSE title,
      cover_url |-> MangaDexCoverURL(mangaData.id,
                                     MangaDexCoverFileName(mangaData.relationships, included)),
      identifier |-> OrEmpty(mangaData.id)]

RECURSIVE MangaDexResults(_, _)
MangaDexResults(data, included) ==
  LET
      \* the filter of lines 78-86
      MangaDexValidEntry(mangaData) ==
        mangaData.hasAttributes /\ mangaData.hasTitle /\ Given(mangaData.id)
  IN
  IF data = <<>> THEN <<>>
  ELSE (IF MangaDexValidEntry(Head(data))
        THEN <<MangaDexSearchResult(Head(data), included)>> ELSE <<>>)
       \o MangaDexResults(Tail(data), included)

\* the outcome of search on the answer resp (lines 48-144)
MangaDexSearchOutcome(resp) ==
  LET body == resp.data
  IN IF resp.threw THEN Threw(NetworkErrorMessage)
     ELSE IF resp.status # 200 THEN Threw(<<"Search failed: ", resp.statusText>>)
     ELSE IF body.isNull \/ ~body.isArray \/ Len(body.data) = 0 THEN Returned(<<>>)
     ELSE Returned(MangaDexResults(body.data, body.included))

\* exports.search up to its await
MangaDex_search(query) ==
  /\ pc = "idle"
  /\ adapter' = "MangaDex" /\ op' = "search" /\ arg' = query
  /\ mango' = [parseHTML |-> TRUE]
  /\ requests' = <<Request("GET", "manga", encodeURIComponent(query), 0)>>
  /\ responses' = <<>>
  /\ pc' = "awaiting"
  /\ outcome' = NoOutcome
  /\ errorLogs' = 0
  /\ UNCHANGED <<cursor, offset, allEpisodes, allChapters, codec, proxy, clock, earlier>>

\* exports.search from the answer on
MangaDex_search_resume(resp) ==
  /\ pc = "awaiting" /\ adapter = "MangaDex" /\ op = "search"
  /\ responses' = Append(responses, Received(resp))
  /\ outcome' = MangaDexSearchOutcome(resp)
  /\ errorLogs' = IF outcome'.kind = "threw" THEN errorLogs + 1 ELSE errorLogs
  /\ pc' = "done"
  /\ UNCHANGED <<adapter, op, arg, mango, cursor, offset, allEpisodes, allChapters,
                 requests, codec, proxy, clock, earlier>>

(***************************************************************************)
(* Webtoons: search                                                        *)
(***************************************************************************)
THUMBNAIL_URL == <<"h","t","t","p","s",":","/","/","w","e","b","t","o","o","n","-","p","h","i","n","f",".","p","s","t","a","t","i","c",".","n","e","t">>

\* response.data of the search endpoint: hasResult (search.result is set),
\* total, and searchedList (hasList is false when it is absent)
SearchBody(isNull, hasResult, total, hasList, searchedList) ==
  [isNull |-> isNull, hasResult |-> hasResult, total |-> total, hasList |-> hasList,
   data |-> searchedList]

WebtoonsSearchResponses ==
  LET
      \* an element of result.searchedList: titleNo in its string form (Null when
      \* null or absent), title, thumbnailImage2 || thumbnailMobile
      SearchedItem(titleNo, title, thumbnail) ==
        [titleNo |-> titleNo, title |-> title, thumbnail |-> thumbnail]

      SearchedItems ==
        { SearchedItem(<<"7">>, <<"O","n","e">>, <<"/","t","/","1",".","j","p","g">>),
          SearchedItem(<<"8">>, Null, <<"t","/","2",".","j","p","g">>),
          SearchedItem(<<"9">>, <<"T">>, <<"h","t","t","p","s",":","/","/","o",".","n","e","t","/","3",".","j","p","g">>),
          SearchedItem(<<"1","0">>, <<"U">>, Null),
          SearchedItem(Null, <<"V">>, Null),
          SearchedItem(<<>>, <<"W">>, Null) }

      NoSearchBody == SearchBody(TRUE, FALSE, 0, FALSE, <<>>)
  IN
  IF ~(pc = "awaiting" /\ adapter = "Webtoons" /\ op = "search") THEN {} ELSE
  {HttpResponse(200, SearchBody(FALSE, TRUE, Len(l), TRUE, l)) :
     l \in SeqsUpTo(SearchedItems, MaxShortPage)}
  \cup {HttpResponse(200, SearchBody(FALSE, TRUE, 1, FALSE, <<>>)),
        HttpResponse(200, SearchBody(FALSE, FALSE, 0, FALSE, <<>>)),
        HttpResponse(200, NoSearchBody)}
  \cup FailedResponses(NoSearchBody)

\* the cover URL of lines 80-109
WebtoonsCoverURL(thumbnail) ==
  LET coverUrl ==
        IF ~Given(thumbnail) THEN <<>>
        ELSE IF StartsWith(thumbnail, <<"h","t","t","p",":","/","/">>) \/ StartsWith(thumbnail, <<"h","t","t","p","s",":","/","/">>)
        THEN thumbnail
        ELSE THUMBNAIL_URL
             \o (IF StartsWith(thumbnail, <<"/">>) THEN thumbnail ELSE <<"/">> \o thumbnail)
  IN IF coverUrl # <<>> /\ Includes(coverUrl, <<"w","e","b","t","o","o","n","-","p","h","i","n","f",".","p","s","t","a","t","i","c",".","n","e","t">>)
     THEN ReplaceFirst(
            constructProxyUrl(coverUrl, ProxyOptions(WEBTOONS_BASE_URL \o <<"/">>, Null, Null)),
            ProxyHost, <<>>)
     ELSE coverUrl

WebtoonsSearchResult(item) ==
  [title |-> IF Given(item.title) THEN item.title ELSE Untitled,
   cover_url |-> WebtoonsCoverURL(item.thumbnail),
   identifier |-> item.titleNo]

\* .filter((item) => item.titleNo != null).map(...)
RECURSIVE WebtoonsResults(_)
WebtoonsResults(items) ==
  IF items = <<>> THEN <<>>
  ELSE (IF Head(items).titleNo # Null THEN <<WebtoonsSearchResult(Head(items))>> ELSE <<>>)
       \o WebtoonsResults(Tail(items))

\* a variant that returns the results last entry first
WebtoonsSearchOutcome_reversed(resp) ==
  LET body == resp.data
  IN IF resp.threw THEN Threw(NetworkErrorMessage)
     ELSE IF resp.status # 200 THEN Threw(<<"Search failed: ", resp.statusText>>)
     ELSE IF body.isNull THEN Threw(TypeErrorMessage)
     ELSE IF ~body.hasResult \/ body.total = 0 THEN Returned(<<>>)
     ELSE Returned(Reverse(WebtoonsResults(IF body.hasList THEN body.data ELSE <<>>)))

\* the outcome of search on the answer resp (lines 64-119), before the catch
WebtoonsSearchOutcome(resp) ==
  LET body == resp.data
  IN IF resp.threw THEN Threw(NetworkErrorMessage)
     ELSE IF resp.status # 200 THEN Threw(<<"Search failed: ", resp.statusText>>)
     ELSE IF body.isNull THEN Threw(TypeErrorMessage)
     ELSE IF ~body.hasResult \/ body.total = 0 THEN Returned(<<>>)
     ELSE Returned(WebtoonsResults(IF body.hasList THEN body.data ELSE <<>>))

\* a variant that sends the search request a second time
Webtoons_search_twice(query) ==
  /\ pc = "idle"
  /\ adapter' = "Webtoons" /\ op' = "search" /\ arg' = query
  /\ mango' = [parseHTML |-> TRUE]
  /\ requests' = <<Request("GET", "search/immediate", encodeURIComponent(query), 0),
                   Request("GET", "search/immediate", encodeURIComponent(query), 0)>>
  /\ responses' = <<>>
  /\ pc' = "awaiting"
  /\ outcome' = NoOutcome
  /\ errorLogs' = 0
  /\ UNCHANGED <<cursor, offset, allEpisodes, allChapters, codec, proxy, clock, earlier>>

\* exports.search up to its await
Webtoons_search(query) ==
  /\ pc = "idle"
  /\ adapter' = "Webtoons" /\ op' = "search" /\ arg' = query
  /\ mango' = [parseHTML |-> TRUE]
  /\ requests' = <<Request("GET", "search/immediate", encodeURIComponent(query), 0)>>
  /\ responses' = <<>>
  /\ pc' = "awaiting"
  /\ outcome' = NoOutcome
  /\ errorLogs' = 0
  /\ UNCHANGED <<cursor, offset, allEpisodes, allChapters, codec, proxy, clock, earlier>>

\* exports.search from the answer on; the catch logs and throws a new Error
\* that wraps the message
Webtoons_search_resume(resp) ==
  /\ pc = "awaiting" /\ adapter = "Webtoons" /\ op = "search"
  /\ responses' = Append(responses, Received(resp))
  /\ LET out == WebtoonsSearchOutcome(resp)
     IN IF out.kind = "threw"
        THEN /\ outcome' = Threw(<<"Failed to search: ">> \o out.error)
             /\ errorLogs' = errorLogs + 1
        ELSE /\ outcome' = out
             /\ errorLogs' = errorLogs
  /\ pc' = "done"
  /\ UNCHANGED <<adapter, op, arg, mango, cursor, offset, allEpisodes, allChapters,
                 requests, codec, proxy, clock, earlier>>

(***************************************************************************)
(* WeebCentral: search                                                     *)
(***************************************************************************)
SeriesPath == <<"/","s","e","r","i","e","s","/">>

\* response.data as a string (isBlank: empty or white space only), and what
\* parseHTML makes of it
Fragment(isBlank, docIsNull, anchors) ==
  [isBlank |-> isBlank, isNull |-> docIsNull, data |-> anchors]

FragmentResponses ==
  LET
      \* an anchor of the search fragment: which selector reaches it ("direct":
      \* #quick-search-result > div > a, "nested": #quick-search-result a only,
      \* "alt": .search-result a or [data-series-id]), its href, the text of its
      \* .flex-1 child, its own textContent, the text of its first span or div, the
      \* srcset || src of its source child and the src || data-src of its img child
      \* (Null for what is absent)
      Anchor(place, href, flexText, text, spanText, srcset, imgSrc) ==
        [place |-> place, href |-> href, flexText |-> flexText, text |-> text,
         spanText |-> spanText, srcset |-> srcset, imgSrc |-> imgSrc]

      Anchors ==
        { Anchor("direct", SeriesPath \o <<"a","b","c","-","1","/">>, <<" ","F","o","o"," ">>, <<" ","F","o","o"," ">>, Null,
                 <<"/","a",".","w","e","b","p"," ","1","x",","," ","/","b",".","w","e","b","p"," ","2","x">>, Null),
          Anchor("direct", <<"/","i","n","v","a","l","i","d","-","l","i","n","k">>, Null, <<>>, Null, Null, Null),
          Anchor("nested", SeriesPath \o <<"n","2">>, Null, <<"B","a","r">>, Null, Null, <<"/","c",".","j","p","g">>),
          Anchor("alt", <<"h","t","t","p","s",":","/","/","w",".","c","/","s","e","r","i","e","s","/","z","9","/","t">>, Null, <<>>, <<"B","a","z">>, Null, Null),
          Anchor("alt", SeriesPath, <<"Q">>, <<"Q">>, Null, Null, Null),
          Anchor("direct", Null, <<"R">>, <<"R">>, Null, Null, Null) }

      NoFragment == Fragment(TRUE, TRUE, <<>>)
  IN
  IF ~(pc = "awaiting" /\ adapter = "WeebCentral" /\ op = "search") THEN {} ELSE
  {HttpResponse(200, Fragment(FALSE, FALSE, as)) : as \in SeqsUpTo(Anchors, MaxShortPage)}
  \cup {HttpResponse(200, Fragment(FALSE, TRUE, <<>>)), HttpResponse(200, NoFragment)}
  \cup FailedResponses(NoFragment)

RECURSIVE SelectAnchors(_, _)
SelectAnchors(anchors, places) ==
  IF anchors = <<>> THEN <<>>
  ELSE (IF Head(anchors).place \in places THEN <<Head(anchors)>> ELSE <<>>)
       \o SelectAnchors(Tail(anchors), places)

\* the three querySelectorAll of lines 99-108
WeebCentralSearchLinks(anchors) ==
  IF SelectAnchors(anchors, {"direct"}) # <<>> THEN SelectAnchors(anchors, {"direct"})
  ELSE IF SelectAnchors(anchors, {"direct", "nested"}) # <<>>
  THEN SelectAnchors(anchors, {"direct", "nested"})
  ELSE SelectAnchors(anchors, {"alt"})

\* the title of lines 116-126
WeebCentralTitle(link) ==
  LET
      \* x.textContent.trim() of an element that may be absent
      TrimmedText(x) == IF x = Null THEN <<>> ELSE Trim(x)
  IN
  IF TrimmedText(link.flexText) # <<>> THEN TrimmedText(link.flexText)
  ELSE IF TrimmedText(link.text) # <<>> THEN TrimmedText(link.text)
  ELSE TrimmedText(link.spanText)

\* the image of lines 129-144
WeebCentralImage(link) ==
  LET fromSource == OrEmpty(link.srcset)
      first == IF Includes(fromSource, <<",">>)
               THEN FirstPart(Trim(FirstPart(fromSource, <<",">>)), <<" ">>)
               ELSE fromSource
  IN IF first # <<>> THEN first ELSE OrEmpty(link.imgSrc)

\* a variant that takes all that follows /series/
WeebCentralIdPart_whole(href) ==
  LET second == SecondPart(href, SeriesPath)
  IN IF second = Null THEN <<>> ELSE second

\* the id of lines 147-158: the segment after the first /series/
WeebCentralIdPart(href) ==
  LET second == SecondPart(href, SeriesPath)
  IN IF second = Null THEN <<>> ELSE FirstPart(second, <<"/">>)

RECURSIVE WeebCentralResults(_)
WeebCentralResults(links) ==
  IF links = <<>> THEN <<>>
  ELSE LET link == Head(links)
       IN (IF Given(link.href) /\ WeebCentralIdPart(link.href) # <<>> /\ WeebCentralTitle(link) # <<>>
           THEN <<[title |-> WeebCentralTitle(link),
                   cover_url |-> WeebCentralImage(link),
                   identifier |-> WeebCentralIdPart(link.href)]>>
           ELSE <<>>)
          \o WeebCentralResults(Tail(links))

\* the outcome of search on the answer resp (lines 62-175)
WeebCentralSearchOutcome(resp, utils) ==
  IF resp.threw THEN Threw(NetworkErrorMessage)
  ELSE IF resp.status # 200 THEN Threw(<<"Search failed: ", resp.statusText>>)
  ELSE IF resp.data.isBlank THEN Returned(<<>>)
  ELSE IF ~utils.parseHTML THEN Threw(<<"parseHTML not available in mango.utils">>)
  ELSE IF resp.data.isNull THEN Threw(<<"Failed to parse HTML response">>)
  ELSE Returned(WeebCentralResults(WeebCentralSearchLinks(resp.data.data)))

\* exports.search up to its await: the form POST
WeebCentral_search(query, m) ==
  /\ pc = "idle"
  /\ adapter' = "WeebCentral" /\ op' = "search" /\ arg' = query
  /\ mango' = m
  /\ requests' = <<Request("POST", "search/simple", encodeURIComponent(query), 0)>>
  /\ responses' = <<>>
  /\ pc' = "awaiting"
  /\ outcome' = NoOutcome
  /\ errorLogs' = 0
  /\ UNCHANGED <<cursor, offset, allEpisodes, allChapters, codec, proxy, clock, earlier>>

\* exports.search from the answer on
WeebCentral_search_resume(resp) ==
  /\ pc = "awaiting" /\ adapter = "WeebCentral" /\ op = "search"
  /\ responses' = Append(responses, Received(resp))
  /\ outcome' = WeebCentralSearchOutcome(resp, mango)
  /\ errorLogs' = IF outcome'.kind = "threw" THEN errorLogs + 1 ELSE errorLogs
  /\ pc' = "done"
  /\ UNCHANGED <<adapter, op, arg, mango, cursor, offset, allEpisodes, allChapters,
                 requests, codec, proxy, clock, earlier>>

\* the caller takes the outcome; the adapter keeps nothing of the invocation
Return ==
  /\ pc = "done"
  /\ pc' = "idle"
  /\ adapter' = "none" /\ op' = "none" /\ arg' = <<>>
  /\ mango' = [parseHTML |-> TRUE]
  /\ cursor' = JSNum(0) /\ offset' = 0
  /\ allEpisodes' = <<>> /\ allChapters' = <<>>
  /\ outcome' = NoOutcome /\ errorLogs' = 0
  /\ requests' = <<>> /\ responses' = <<>>
  /\ clock' = ""
  /\ UNCHANGED <<codec, proxy, earlier>>

\* no invocation is running
NoInvocation ==
  /\ pc = "idle"
  /\ adapter = "none" /\ op = "none" /\ arg = <<>>
  /\ mango = [parseHTML |-> TRUE]
  /\ cursor = JSNum(0) /\ offset = 0
  /\ allEpisodes = <<>> /\ allChapters = <<>>
  /\ outcome = NoOutcome /\ errorLogs = 0
  /\ requests = <<>> /\ responses = <<>>
  /\ clock = ""

Init ==
  /\ NoInvocation
  /\ codec = NoCodec
  /\ proxy = NoProxy
  /\ earlier = NoEarlier

\* every step of an invocation but the answer to a Webtoons episodes request
OtherSteps ==
  \/ \E s \in SeriesIdentifiers : MangaDex_getChapters(s)
  \/ \E resp \in FeedResponses : MangaDex_getChapters_resume(resp)
  \/ \E s \in SeriesIdentifiers : Webtoons_getChapters(s)
  \/ \E s \in SeriesIdentifiers, m \in Mangos : WeebCentral_getChapters(s, m)
  \/ \E resp \in ChapterListResponses : WeebCentral_getChapters_resume(resp)
  \/ \E c \in MangaDexChapterIdentifiers : MangaDex_getPageURLs(c)
  \/ \E resp \in AtHomeResponses : MangaDex_getPageURLs_resume(resp)
  \/ \E c \in WeebCentralChapterIdentifiers, m \in Mangos : WeebCentral_getPageURLs(c, m)
  \/ \E resp \in ImageListResponses : WeebCentral_getPageURLs_resume(resp)
  \/ \E c \in WebtoonsChapterIdentifiers : Webtoons_getPageURLs(c)
  \/ \E resp \in ViewerResponses : Webtoons_getPageURLs_resume(resp)
  \/ \E q \in Queries : MangaDex_search(q)
  \/ \E resp \in MangaResponses : MangaDex_search_resume(resp)
  \/ \E q \in Queries : Webtoons_search(q)
  \/ \E resp \in WebtoonsSearchResponses : Webtoons_search_resume(resp)
  \/ \E q \in Queries, m \in Mangos : WeebCentral_search(q, m)
  \/ \E resp \in FragmentResponses : WeebCentral_search_resume(resp)
  \/ Return

Next ==
  \/ OtherSteps
  \/ \E resp \in EpisodeResponses, now \in Nows : Webtoons_getChapters_resume(resp, now)

Spec == Init /\ [][Next]_vars

(***************************************************************************)
(* The same adapters against a Webtoons source that may go on naming a     *)
(* further cursor for ever (on pages without episodes once MaxCursorPages  *)
(* requests were issued).  An outstanding request is answered in the end   *)
(* and the caller takes every outcome.                                     *)
(***************************************************************************)
EpisodeResponsesLive ==
  LET
      \* pages without episodes that name a further cursor
      EmptyPagesWithCursor ==
        {HttpResponse(200, EpisodesBody(FALSE, TRUE, TRUE, <<>>, c)) : c \in NextCursors}
  IN
  IF pc = "awaiting" /\ adapter = "Webtoons" /\ op = "getChapters"
  THEN EpisodeResponses \cup EmptyPagesWithCursor
  ELSE {}

Webtoons_getChapters_answered ==
  \E resp \in EpisodeResponsesLive, now \in Nows : Webtoons_getChapters_resume(resp, now)

NextLive ==
  \/ OtherSteps
  \/ Webtoons_getChapters_answered

LiveSpec ==
  /\ Init
  /\ [][NextLive]_vars
  /\ WF_vars(NextLive)
  /\ WF_vars(Webtoons_getChapters_answered)

(***************************************************************************)
(* The Webtoons identifier codec on its own: the identifier getChapters    *)
(* builds from a series id S, a viewer link V and an episode number N, and *)
(* what the regular expression of getPageURLs makes of it.                 *)
(***************************************************************************)
\* length of the viewer links drawn from LinkChars
MaxLinkLen == 3

InitCodec ==
  LET
      LinkChars == {"/", "-", "_", "a", "?"}

      CodecS == {<<"7">>, <<"6","7","9","5">>}

      CodecN == {<<"1">>, <<"1","0">>, <<"0">>}

      CodecV ==
        (SeqsUpTo(LinkChars, MaxLinkLen) \ {<<>>})
        \cup { <<"/","e","n","/","a","-","b","/","v","i","e","w","e","r","?","t","i","t","l","e","_","n","o","=","7","&","e","p","i","s","o","d","e","_","n","o","=","1">>,
               <<"h","t","t","p","s",":","/","/","m",".","w",".","c","o","m","/","v","?","e","=","2">>,
               <<"/","c","h","N","u","m","-","x">> }
  IN
  /\ NoInvocation
  /\ proxy = NoProxy
  /\ earlier = NoEarlier
  /\ codec \in {[NoCodec EXCEPT !.S = S, !.V = V, !.N = N] :
                  S \in CodecS, V \in CodecV, N \in CodecN}

\* getChapters encodes, getPageURLs decodes
CodecApply ==
  /\ ~codec.applied
  /\ LET id == WebtoonsChapterId(codec.S, codec.V, codec.N)
         idMatch == MatchChapterId(id)
     IN codec' = [codec EXCEPT !.id = id, !.matched = idMatch.matched,
                               !.mangaID = idMatch.mangaID,
                               !.viewerLink = idMatch.viewerLink,
                               !.chNum = idMatch.chNum, !.applied = TRUE]
  /\ UNCHANGED <<adapter, op, arg, mango, pc, cursor, offset, allEpisodes,
                 allChapters, outcome, errorLogs, requests, responses, proxy,
                 clock, earlier>>

NextCodec == CodecApply

SpecCodec == InitCodec /\ [][NextCodec]_vars

(***************************************************************************)
(* constructProxyUrl on its own: the function of one adapter applied to    *)
(* one image URL and one options object.                                   *)
(***************************************************************************)
InitProxy ==
  LET
      ImageUrls == {<<"h","t","t","p","s",":","/","/","c","d","n",".","x","/","1",".","j","p","g">>,
                    <<"/","a","?","b","=","1","&","c","=","2">>}

      \* an option field: absent, empty, or set
      Field(value) == {Null, <<>>, value}

      Options ==
        {ProxyOptions(r, u, o) :
           r \in Field(<<"h","t","t","p","s",":","/","/","x",".","y","/">>),
           u \in Field(<<"U","A"," ","1","&","2">>),
           o \in Field(<<"h","t","t","p","s",":","/","/","x",".","y">>)}
  IN
  /\ NoInvocation
  /\ codec = NoCodec
  /\ earlier = NoEarlier
  /\ proxy \in {[NoProxy EXCEPT !.fn = f, !.imageUrl = i, !.options = o] :
                  f \in {"WeebCentral", "Webtoons", "MangaDex"}, i \in ImageUrls, o \in Options}

\* the call constructProxyUrl(imageUrl, options) in the adapter proxy.fn
ProxyApply ==
  /\ ~proxy.applied
  /\ proxy' = [proxy EXCEPT
                 !.url = IF proxy.fn = "MangaDex"
                         THEN constructProxyUrlMangaDex(proxy.imageUrl, proxy.options)
                         ELSE constructProxyUrl(proxy.imageUrl, proxy.options),
                 !.applied = TRUE]
  /\ UNCHANGED <<adapter, op, arg, mango, pc, cursor, offset, allEpisodes,
                 allChapters, outcome, errorLogs, requests, responses, codec,
                 clock, earlier>>

NextProxy == ProxyApply

SpecProxy == InitProxy /\ [][NextProxy]_vars

(***************************************************************************)
(* getChapters of the three adapters, invoked again and again, with one    *)
(* invocation that has ended kept aside as its caller saw it: operation,   *)
(* argument, collaborator, the answers it received, the clock and the      *)
(* outcome.  The pages served hold one item at most, or are full.          *)
(***************************************************************************)
\* the caller takes the outcome and keeps a record of the invocation
Remember ==
  /\ pc = "done" /\ earlier = NoEarlier
  /\ earlier' = [adapter |-> adapter, op |-> op, arg |-> arg, mango |-> mango,
                 responses |-> responses, clock |-> clock, outcome |-> outcome]
  /\ pc' = "idle"
  /\ adapter' = "none" /\ op' = "none" /\ arg' = <<>>
  /\ mango' = [parseHTML |-> TRUE]
  /\ cursor' = JSNum(0) /\ offset' = 0
  /\ allEpisodes' = <<>> /\ allChapters' = <<>>
  /\ outcome' = NoOutcome /\ errorLogs' = 0
  /\ requests' = <<>> /\ responses' = <<>>
  /\ clock' = ""
  /\ UNCHANGED <<codec, proxy>>

NextTwice ==
  LET
      \* a failure, or a body that holds one item at most
      Brief(r) ==
        \/ r.status = 500
        \/ ~r.threw /\ r.status = 200 /\ ~r.data.isNull /\ Len(r.data.data) <= 1
      \* or a full page of the feed
      BriefFeed(r) ==
        Brief(r) \/ (Len(r.data.data) = limit /\ r.data.data[1].chapter = <<"7">>)
      \* the episodes carry a title; a page that names a further cursor is empty
      BriefEpisodes(r) ==
        /\ Brief(r)
        /\ r.data.nextCursor \in {JSNull, JSNum(100)}
        /\ Len(r.data.data) = 1 =>
             r.data.data[1].episodeTitle # Null /\ r.data.nextCursor = JSNull
  IN
  \/ \E s \in SeriesIdentifiers : MangaDex_getChapters(s)
  \/ \E resp \in {r \in FeedResponses : BriefFeed(r)} : MangaDex_getChapters_resume(resp)
  \/ \E s \in SeriesIdentifiers : Webtoons_getChapters(s)
  \/ \E resp \in {r \in EpisodeResponses : BriefEpisodes(r)}, now \in Nows :
       Webtoons_getChapters_resume(resp, now)
  \/ \E s \in SeriesIdentifiers, m \in Mangos : WeebCentral_getChapters(s, m)
  \/ \E resp \in {r \in ChapterListResponses : Brief(r)} : WeebCentral_getChapters_resume(resp)
  \/ Return
  \/ Remember

SpecTwice == Init /\ [][NextTwice]_vars

(***************************************************************************)
(* cleanChapterNumber on its own: the function applied to one string.      *)
(***************************************************************************)
\* length of the strings handed to cleanChapterNumber
MaxChapterStrLen == 4

InitClean ==
  LET
      ChapterChars == {"0", "7", "."}
  IN
  /\ pc = "idle"
  /\ adapter = "WeebCentral" /\ op = "cleanChapterNumber"
  /\ arg \in SeqsUpTo(ChapterChars, MaxChapterStrLen)
  /\ mango = [parseHTML |-> TRUE]
  /\ cursor = JSNum(0) /\ offset = 0
  /\ allEpisodes = <<>> /\ allChapters = <<>>
  /\ outcome = NoOutcome /\ errorLogs = 0
  /\ requests = <<>> /\ responses = <<>>
  /\ clock = ""
  /\ codec = NoCodec
  /\ proxy = NoProxy
  /\ earlier = NoEarlier

\* return cleanChapterNumber(chapterStr)
CleanApply ==
  /\ pc = "idle" /\ op = "cleanChapterNumber"
  /\ outcome' = Returned(cleanChapterNumber(arg))
  /\ pc' = "done"
  /\ UNCHANGED <<adapter, op, arg, mango, cursor, offset, allEpisodes, allChapters,
                 errorLogs, requests, responses, codec, proxy, clock, earlier>>

NextClean == CleanApply

SpecClean == InitClean /\ [][NextClean]_vars

(***************************************************************************)
(* Properties                                                              *)
(***************************************************************************)
\* the invocation has ended by returning a list
HasReturned(a, o) ==
  pc = "done" /\ adapter = a /\ op = o /\ outcome.kind = "returned"

\* the invocation has ended by throwing
HasThrown == pc = "done" /\ outcome.kind = "threw"

\* the answer to the last request of the invocation
LastResponse == responses[Len(responses)]

\* the answer carries status 200
Ok(r) == ~r.threw /\ r.status = 200

\* C1: for every adapter and every sequence of pages, the list c returned by
\* a successful getChapters has parseFloat(c[i].chapter) <=
\* parseFloat(c[i+1].chapter) for every adjacent pair.
C1_ChaptersAscending ==
  (pc = "done" /\ op = "getChapters" /\ outcome.kind = "returned") =>
    \A i \in 1..(Len(outcome.value) - 1) :
      NumLeq(parseFloat(outcome.value[i].chapter), parseFloat(outcome.value[i + 1].chapter))

\* C2: decoding the identifier that getChapters builds from (S, V, N) with
\* the regular expression of getPageURLs recovers exactly S, V and N.
C2_RoundTrip ==
  codec.applied =>
    /\ codec.matched
    /\ codec.mangaID = codec.S
    /\ codec.viewerLink = codec.V
    /\ codec.chNum = codec.N

\* the page URLs a document with status 200 yields for getPageURLs
PagesYielded(a, body) ==
  CASE a = "WeebCentral" -> WeebCentralPages(WeebCentralImages(body.data), arg)
    [] a = "Webtoons" -> IF body.hasImageList THEN WebtoonsImageUrls(body.data) ELSE <<>>
    [] a = "MangaDex" -> MangaDexPageFiles(body)

\* the body of the answer is one the adapter can read: the document that
\* parseHTML gives (WeebCentral), the JSON object with its chapter (MangaDex)
BodyReadable(a, body) ==
  CASE a = "WeebCentral" -> mango.parseHTML /\ ~body.isNull
    [] a = "Webtoons" -> TRUE
    [] a = "MangaDex" -> ~body.isNull /\ body.hasChapter

\* a getPageURLs call has ended on an answer with status 200 that yields no page
EndedWithoutPages(a) ==
  /\ pc = "done" /\ adapter = a /\ op = "getPageURLs"
  /\ Len(responses) = 1 /\ Ok(responses[1])
  /\ BodyReadable(a, responses[1].body)
  /\ PagesYielded(a, responses[1].body) = <<>>

NoPagesErrors ==
  { <<"No pages found">>,
    <<"_imageList div not found in chapter viewer">>,
    <<"No images found in _imageList div">> }

C4_MangaDexReturnsNoPages ==
  ( /\ pc = "done" /\ adapter = "MangaDex" /\ op = "getPageURLs"
    /\ Len(responses) = 1 /\ Ok(responses[1])
    /\ ~responses[1].body.isNull /\ responses[1].body.hasChapter
    /\ responses[1].body.data = <<>> )
  => outcome = Returned(<<>>) /\ errorLogs = 0

\* C4 witness: the call has ended on chapter.data = []
C4_Witness ==
  /\ pc = "done" /\ adapter = "MangaDex" /\ op = "getPageURLs"
  /\ Len(responses) = 1 /\ Ok(responses[1])
  /\ responses[1].body.hasChapter /\ responses[1].body.hasFiles
  /\ responses[1].body.data = <<>>
  /\ outcome.kind = "returned"

\* C5: every getChapters invocation eventually terminates, whatever pages
\* the source serves.
C5_GetChaptersTerminates ==
  (pc = "awaiting" /\ op = "getChapters") ~> (pc = "done")

\* C9: whenever an invocation ends in failure, it has called log.error
\* before the failure reaches the caller.
C9_FailuresAreLogged == HasThrown => errorLogs >= 1

\* the parts of an error message
Parts(message) == {message[i] : i \in 1..Len(message)}

\* C10: whenever the collaborator answers with a non-2xx status, the call
\* fails and the failure carries both the numeric status and the status text.
C10_FailureCarriesStatus ==
  \A i \in 1..Len(responses) :
    (~responses[i].threw /\ responses[i].status \notin 200..299) =>
      (pc = "done" =>
        /\ outcome.kind = "threw"
        /\ StatusString(responses[i].status) \in Parts(outcome.error)
        /\ StatusText(responses[i].status) \in Parts(outcome.error))

\* the items of all pages received, in the order of arrival
RECURSIVE PagesConcat(_)
PagesConcat(received) ==
  IF received = <<>> THEN <<>>
  ELSE Head(received).body.data \o PagesConcat(Tail(received))

\* a and b hold the same elements the same number of times
SameElements(a, b) ==
  /\ Len(a) = Len(b)
  /\ \A i \in 1..Len(a) :
       Cardinality({j \in 1..Len(a) : a[j] = a[i]}) = Cardinality({j \in 1..Len(b) : b[j] = a[i]})

\* answer i of a Webtoons getChapters invocation is a page the code accepts
EpisodePageAccepted(i) ==
  /\ Ok(responses[i])
  /\ ~responses[i].body.isNull /\ responses[i].body.success /\ responses[i].body.hasList

\* C6 as stated: after each successful page whose nextCursor is non-null a
\* further request is issued, and it carries that value as its cursor.
C6_NonNullCursorIsFollowed ==
  (adapter = "Webtoons" /\ op = "getChapters") =>
    \A i \in 1..Len(responses) :
      (EpisodePageAccepted(i) /\ responses[i].body.nextCursor # JSNull) =>
        /\ Len(requests) > i
        /\ requests[i + 1].page = responses[i].body.nextCursor.n

\* C6 amended: Webtoons getChapters issues its first request with cursor 0;
\* after each successful page whose nextCursor is truthy (neither null nor 0)
\* it issues one further request that carries that value; the first page
\* whose nextCursor is null or 0 is the last one; and the list returned then
\* holds exactly one chapter per episode of every page.
C6_CursorPagination ==
  (adapter = "Webtoons" /\ op = "getChapters") =>
    /\ requests[1].page = 0
    /\ Len(requests) \in {Len(responses), Len(responses) + 1}
    /\ pc = "awaiting" <=> Len(requests) = Len(responses) + 1
    /\ \A i \in 1..Len(responses) :
         EpisodePageAccepted(i) =>
           IF Truthy(responses[i].body.nextCursor)
           THEN /\ Len(requests) > i
                /\ requests[i + 1].page = responses[i].body.nextCursor.n
           ELSE /\ Len(requests) = i
                /\ outcome.kind = "returned"
    /\ outcome.kind = "returned" =>
         LET episodes == PagesConcat(responses)
         IN \E now \in Nows :
              SameElements(outcome.value,
                           [i \in 1..Len(episodes) |-> WebtoonsChapterResult(arg, episodes[i], now)])

\* C6 witness: two pages with episodes, the first naming cursor 100, and the
\* list of both returned
C6_Witness ==
  /\ HasReturned("Webtoons", "getChapters")
  /\ Len(responses) = 2 /\ Len(requests) = 2
  /\ responses[1].body.nextCursor = JSNum(100)
  /\ responses[2].body.nextCursor = JSNull
  /\ responses[1].body.data # <<>> /\ responses[2].body.data # <<>>
  /\ Len(outcome.value) = Len(responses[1].body.data) + Len(responses[2].body.data)

\* the number of items of feed page i
FeedPageLen(i) ==
  IF responses[i].body.hasData THEN Len(responses[i].body.data) ELSE 0

\* C7: MangaDex getChapters requests the feed at offsets 0, 500, 1000, ... in
\* that order, stops after the first page that holds fewer than 500 items and
\* issues no request after it; the list returned has exactly one chapter per
\* item of every page fetched.
C7_OffsetPagination ==
  (adapter = "MangaDex" /\ op = "getChapters") =>
    /\ \A i \in 1..Len(requests) : requests[i].page = (i - 1) * 500
    /\ Len(requests) \in {Len(responses), Len(responses) + 1}
    /\ \A i \in 1..Len(responses) :
         (Ok(responses[i]) /\ ~responses[i].body.isNull) =>
           IF FeedPageLen(i) < 500
           THEN Len(requests) = i /\ Len(responses) = i /\ pc = "done"
           ELSE Len(requests) > i
    /\ outcome.kind = "returned" =>
         LET items == PagesConcat(responses)
         IN /\ Len(outcome.value) = Len(items)
            /\ \A i \in 1..Len(items) :
                 outcome.value[Len(items) + 1 - i].identifier = items[i].id

\* C7 witness: three requests, the third answered by a short page that is
\* not empty, and the list returned
C7_Witness ==
  /\ HasReturned("MangaDex", "getChapters")
  /\ Len(requests) = 3 /\ requests[3].page = 1000
  /\ FeedPageLen(3) > 0
  /\ Len(outcome.value) = 1000 + FeedPageLen(3)

\* C8: once an HTTP request returns a status other than success or is
\* rejected, the invocation issues no further request and ends in failure,
\* returning none of the chapters accumulated from earlier pages.
C8_NoRetry ==
  \A i \in 1..Len(responses) :
    (responses[i].threw \/ responses[i].status # 200) =>
      /\ i = Len(responses)
      /\ Len(requests) = i
      /\ pc = "done"
      /\ outcome.kind = "threw"
      /\ outcome.value = <<>>

\* C8 witness: MangaDex getChapters has failed on the second page, after a
\* full first page
C8_Witness ==
  /\ pc = "done" /\ adapter = "MangaDex" /\ op = "getChapters"
  /\ Len(responses) = 2 /\ Len(requests) = 2
  /\ FeedPageLen(1) = 500
  /\ responses[2].status = 500
  /\ outcome.kind = "threw"

\* the body of a search answer is empty or not of the expected shape: null
\* or no data array (MangaDex), null or no result (Webtoons), blank or a
\* fragment of which the parser makes no document (WeebCentral)
SearchBodyUnusable(a, body) ==
  CASE a = "MangaDex" -> body.isNull \/ ~body.isArray
    [] a = "Webtoons" -> body.isNull \/ ~body.hasResult
    [] a = "WeebCentral" -> body.isBlank \/ body.isNull

\* C11: in every adapter, search returns an empty list and does not fail
\* when the status is success but the body is empty or cannot be parsed into
\* the expected shape.
C11_SearchEmptyOnUnusableBody ==
  (pc = "done" /\ op = "search" /\ mango.parseHTML /\ Ok(LastResponse)
     /\ SearchBodyUnusable(adapter, LastResponse.body)) =>
    (outcome.kind = "returned" /\ outcome.value = <<>>)

\* the candidate entries of a search answer, in the order of the source
SearchCandidates(a, body) ==
  CASE a = "MangaDex" -> body.data
    [] a = "Webtoons" -> IF body.hasList THEN body.data ELSE <<>>
    [] a = "WeebCentral" -> WeebCentralSearchLinks(body.data)

\* the path segment that follows the first /series/ of href, up to the next
\* slash (empty when href holds no /series/)
SeriesSegment(href) ==
  LET i == IndexOf(href, SeriesPath)
      rest == From(href, i + Len(SeriesPath))
      j == IndexOf(rest, <<"/">>)
  IN IF i = 0 THEN <<>>
     ELSE IF j = 0 THEN rest
     ELSE SubSeq(rest, 1, j - 1)

\* the entry names its series: a non-empty id (MangaDex), a non-empty
\* titleNo (Webtoons), an href with a non-empty /series/ segment (WeebCentral)
EntryIdentified(a, e) ==
  CASE a = "MangaDex" -> e.id # Null /\ e.id # <<>>
    [] a = "Webtoons" -> e.titleNo # Null /\ e.titleNo # <<>>
    [] a = "WeebCentral" -> e.href # Null /\ SeriesSegment(e.href) # <<>>

\* the entry carries a title text
EntryTitled(a, e) ==
  CASE a = "MangaDex" ->
         e.hasAttributes /\ e.hasTitle /\ \E i \in 1..Len(e.title) : e.title[i][2] # <<>>
    [] a = "Webtoons" -> e.title # Null /\ e.title # <<>>
    [] a = "WeebCentral" ->
         \E t \in {e.flexText, e.text, e.spanText} : t # Null /\ Trim(t) # <<>>

\* C12: in every adapter, a search candidate that lacks a resolvable
\* identifier or lacks a title is absent from the returned list and does not
\* make search fail, and every other entry is returned; every returned
\* SearchResult has a non-empty identifier and a non-empty title.
C12_OnlyIdentifiedTitledEntries ==
  (pc = "done" /\ op = "search" /\ mango.parseHTML /\ Ok(LastResponse)
     /\ ~SearchBodyUnusable(adapter, LastResponse.body)) =>
    LET entries == SearchCandidates(adapter, LastResponse.body)
        kept == {i \in 1..Len(entries) :
                   EntryIdentified(adapter, entries[i]) /\ EntryTitled(adapter, entries[i])}
    IN /\ outcome.kind = "returned"
       /\ Len(outcome.value) = Cardinality(kept)
       /\ \A k \in 1..Len(outcome.value) :
            outcome.value[k].identifier # <<>> /\ outcome.value[k].title # <<>>

\* no row of the chapter list holds an anchor to a chapter
NoChapterRows(rows) ==
  \A i \in 1..Len(rows) :
    ~rows[i].hasA \/ rows[i].href = Null \/ IndexOf(rows[i].href, ChaptersPath) = 0

\* C13: when the source yields zero chapters with success status,
\* getChapters returns an empty list for Webtoons and MangaDex and fails with
\* "No chapters found" for WeebCentral.
C13_NoChaptersPolicy ==
  (pc = "done" /\ op = "getChapters"
     /\ \A i \in 1..Len(responses) : Ok(responses[i]) /\ ~responses[i].body.isNull) =>
    CASE adapter = "MangaDex" ->
           PagesConcat(responses) = <<>> => outcome = Returned(<<>>)
      [] adapter = "Webtoons" ->
           ((\A i \in 1..Len(responses) : EpisodePageAccepted(i))
              /\ PagesConcat(responses) = <<>>) => outcome = Returned(<<>>)
      [] adapter = "WeebCentral" ->
           (mango.parseHTML /\ NoChapterRows(LastResponse.body.data)) =>
             outcome = Threw(<<"No chapters found">>)

\* C13 witness: WeebCentral getChapters has failed on a chapter list whose
\* rows hold no chapter link
C13_Witness ==
  /\ pc = "done" /\ adapter = "WeebCentral" /\ op = "getChapters"
  /\ Ok(LastResponse) /\ ~LastResponse.body.isNull /\ mango.parseHTML
  /\ Len(LastResponse.body.data) = 2
  /\ NoChapterRows(LastResponse.body.data)
  /\ outcome.kind = "threw"

\* url is base?url=<original, percent-encoded>, followed by nothing or by
\* further parameters
IsProxyOf(url, base, original) ==
  LET head == base \o <<"?","u","r","l","=">> \o encodeURIComponent(original)
  IN /\ StartsWith(url, head)
     /\ Len(url) > Len(head) => url[Len(head) + 1] = "&"

\* the image URLs that getPageURLs of adapter a hands to the proxy rule, in
\* the order of the answer body
PageOriginals(a, body) ==
  LET HasSrc(img) == img.src # Null /\ Trim(img.src) # <<>>
      imgs == SelectSeq(WeebCentralImages(body.data), HasSrc)
  IN CASE a = "MangaDex" ->
            [i \in 1..Len(MangaDexPageFiles(body)) |->
               Interpolate(body.baseUrl) \o <<"/","d","a","t","a","/">> \o Interpolate(body.hash)
               \o <<"/">> \o MangaDexPageFiles(body)[i]]
       [] a = "WeebCentral" -> [i \in 1..Len(imgs) |-> imgs[i].src]
       [] a = "Webtoons" -> WebtoonsImageUrls(body.data)

\* the cover URLs that search of adapter a may hand to the proxy rule for the
\* k-th result: for MangaDex the cover of the manga under any file name of the
\* answer, for Webtoons the thumbnails served by webtoon-phinf.pstatic.net
CoverOriginals(a, body, k) ==
  LET names == {body.included[i].fileName : i \in 1..Len(body.included)}
               \cup UNION {{e.relationships[i].fileName : i \in 1..Len(e.relationships)} :
                             e \in {body.data[j] : j \in 1..Len(body.data)}}
      Listed(item) == item.titleNo # Null
      items == SelectSeq(body.data, Listed)
      t == items[k].thumbnail
      absolute == IF StartsWith(t, <<"h","t","t","p">>) THEN t
                  ELSE THUMBNAIL_URL \o (IF t[1] = "/" THEN <<>> ELSE <<"/">>) \o t
  IN CASE a = "MangaDex" ->
            {COVER_ART_BASE_URL \o <<"/","c","o","v","e","r","s","/">> \o outcome.value[k].identifier
             \o <<"/">> \o f \o <<".","2","5","6",".","j","p","g">> : f \in names \ {Null}}
       [] a = "Webtoons" ->
            IF Given(t) /\ Includes(absolute, From(THUMBNAIL_URL, 9)) THEN {absolute} ELSE {}

\* the proxy rule as a property of the returned URLs: page URLs start with
\* pageBase, proxied cover URLs with coverBase, and both carry the original URL
\* percent-encoded as the url parameter
ProxyRuleHolds(pageBase, coverBase) ==
  /\ (pc = "done" /\ op = "getPageURLs" /\ outcome.kind = "returned") =>
       LET originals == PageOriginals(adapter, LastResponse.body)
       IN /\ Len(outcome.value) = Len(originals)
          /\ \A i \in 1..Len(originals) : IsProxyOf(outcome.value[i], pageBase, originals[i])
  /\ (pc = "done" /\ op = "search" /\ adapter \in {"MangaDex", "Webtoons"}
      /\ outcome.kind = "returned") =>
       \A k \in 1..Len(outcome.value) :
         LET cover == outcome.value[k].cover_url
             originals == CoverOriginals(adapter, LastResponse.body, k)
         IN (cover # <<>> /\ (adapter = "MangaDex" \/ originals # {})) =>
              \E o \in originals : IsProxyOf(cover, coverBase, o)

QueryParams(url) ==
  LET RECURSIVE Split(_, _)
      Split(s, sep) ==
        IF IndexOf(s, sep) = 0 THEN <<s>>
        ELSE <<SubSeq(s, 1, IndexOf(s, sep) - 1)>> \o Split(From(s, IndexOf(s, sep) + 1), sep)
      pairs == Split(From(url, IndexOf(url, <<"?">>) + 1), <<"&">>)
  IN [i \in 1..Len(pairs) |->
        <<FirstPart(pairs[i], <<"=">>), From(pairs[i], IndexOf(pairs[i], <<"=">>) + 1)>>]

\* the url parameter, then one parameter for each non-empty field among
\* fields, in their order
ParamsFor(imageUrl, fields) ==
  LET NonEmpty(f) == f[2] # Null /\ f[2] # <<>>
      kept == SelectSeq(fields, NonEmpty)
  IN <<<<(<<"u","r","l">>), encodeURIComponent(imageUrl)>>>>
     \o [i \in 1..Len(kept) |-> <<kept[i][1], encodeURIComponent(kept[i][2])>>]

RefererField == <<(<<"r","e","f","e","r","e","r">>), proxy.options.referer>>

UserAgentField == <<(<<"u","s","e","r","-","a","g","e","n","t">>), proxy.options.userAgent>>

OriginField == <<(<<"o","r","i","g","i","n">>), proxy.options.origin>>

ResolvedCoverNames(e, included) ==
  {f \in {e.relationships[i].fileName : i \in 1..Len(e.relationships)}
         \cup {included[j].fileName : j \in 1..Len(included)} :
     /\ f # Null /\ f # <<>>
     /\ \E i \in 1..Len(e.relationships) :
          LET rel == e.relationships[i]
          IN /\ rel.type = "cover_art"
             /\ \/ rel.fileName = f
                \/ /\ rel.fileName \in {Null, <<>>}
                   /\ \E j \in 1..Len(included) :
                        /\ included[j].type = "cover_art"
                        /\ included[j].id = rel.id /\ rel.id # Null
                        /\ included[j].fileName = f}

\* C16: MangaDex search: for every manga entry it returns, if a cover_art
\* relationship carries the file name in its attributes, or else an included
\* cover_art item has the relationship's id and a file name, the result's
\* cover_url embeds the manga id and that file name; when no file name can be
\* resolved cover_url is the empty string.
C16_CoverResolution ==
  HasReturned("MangaDex", "search") =>
    LET body == LastResponse.body
    IN \A i \in 1..Len(body.data), k \in 1..Len(outcome.value) :
         outcome.value[k].identifier = body.data[i].id =>
           LET names == ResolvedCoverNames(body.data[i], body.included)
               cover == outcome.value[k].cover_url
           IN IF names = {} THEN cover = <<>>
              ELSE \E f \in names :
                     Includes(cover, encodeURIComponent(<<"/">> \o body.data[i].id \o <<"/">> \o f \o <<".">>))

\* a search has returned one manga whose cover was resolved through the
\* included items and one whose cover could not be resolved
C16_Witness ==
  /\ HasReturned("MangaDex", "search") /\ Len(outcome.value) = 2
  /\ Includes(outcome.value[1].cover_url, <<"b",".","p","n","g">>)
  /\ outcome.value[2].cover_url = <<>>
  /\ ResolvedCoverNames(LastResponse.body.data[2], LastResponse.body.included) = {}

\* C17: WeebCentral search returns exactly one result per anchor (of those
\* its selectors yield) whose href contains /series/{id} with a non-empty id
\* and for which a non-empty title can be extracted, in the order of the
\* anchors, with identifier equal to the path segment that follows /series/
\* up to the next slash; anchors without such a segment produce no result.
C17_OneResultPerSeriesAnchor ==
  (HasReturned("WeebCentral", "search") /\ ~LastResponse.body.isBlank) =>
    LET Qualifies(link) ==
          EntryIdentified("WeebCentral", link) /\ EntryTitled("WeebCentral", link)
        kept == SelectSeq(SearchCandidates("WeebCentral", LastResponse.body), Qualifies)
    IN /\ Len(outcome.value) = Len(kept)
       /\ \A k \in 1..Len(kept) : outcome.value[k].identifier = SeriesSegment(kept[k].href)

\* the fragment held an anchor to /series/abc-1/ with a title and an anchor to
\* /invalid-link, and search has returned the single result abc-1
C17_Witness ==
  /\ HasReturned("WeebCentral", "search")
  /\ Len(LastResponse.body.data) = 2
  /\ LastResponse.body.data[2].href = <<"/","i","n","v","a","l","i","d","-","l","i","n","k">>
  /\ Len(outcome.value) = 1
  /\ outcome.value[1].identifier = <<"a","b","c","-","1">>

\* C19: within one adapter invocation at most one HTTP request is outstanding
\* at any time: a step issues one request at most, and it issues the request
\* for page n+1 only when the answers to the n requests before it have been
\* received (the last of them examined in that very step).
C19_OneRequestOutstanding ==
  [][/\ Len(requests') - Len(responses') \in {0, 1}
     /\ (pc' = "awaiting") <=> (Len(requests') = Len(responses') + 1)
     /\ Len(requests') > Len(requests) =>
          /\ Len(requests') = Len(requests) + 1
          /\ Len(responses') = Len(requests)
          /\ \A i \in 1..Len(requests) : requests'[i] = requests[i]]_vars

\* a pagination loop waits for the answer to its third request, the first two
\* answered
C19_Witness ==
  /\ pc = "awaiting" /\ op = "getChapters" /\ adapter = "MangaDex"
  /\ Len(requests) = 3 /\ Len(responses) = 2
  /\ requests[3].page = 2 * limit

\* s holds id<digits>viewerLink<non-empty>chNum<non-empty> somewhere
HoldsChapterIdFormat(s) ==
  LET At(i, t) == i + Len(t) - 1 <= Len(s) /\ SubSeq(s, i, i + Len(t) - 1) = t
  IN \E p \in 1..Len(s), d \in 1..Len(s), c \in 1..Len(s) :
       /\ At(p, <<"i","d">>)
       /\ \A i \in (p + 2)..(p + 1 + d) : i <= Len(s) /\ s[i] \in Digits
       /\ At(p + 2 + d, <<"v","i","e","w","e","r","L","i","n","k">>)
       /\ c > p + 12 + d
       /\ At(c, <<"c","h","N","u","m">>)
       /\ c + 4 < Len(s)

\* C20: Webtoons getPageURLs, given a chapter identifier that does not match
\* id<digits>viewerLink<non-empty>chNum<non-empty> (anywhere in the string, as
\* the regular expression is not anchored), fails with "Invalid chapter ID
\* format" without issuing any HTTP request.
C20_InvalidIdentifierFailsUnrequested ==
  (adapter = "Webtoons" /\ op = "getPageURLs" /\ ~HoldsChapterIdFormat(arg)) =>
    /\ pc = "done"
    /\ outcome = Threw(<<"Invalid chapter ID format">>)
    /\ requests = <<>> /\ responses = <<>>

\* getPageURLs was called with an identifier whose viewer link is empty
C20_Witness ==
  /\ adapter = "Webtoons" /\ op = "getPageURLs" /\ pc = "done"
  /\ arg = <<"i","d","7","v","i","e","w","e","r","L","i","n","k","c","h","N","u","m","1">>
  /\ outcome.kind = "threw"

\* the invocation that has just ended is one of the operation, argument and
\* collaborator of the invocation kept aside, and received the same answers
SameInvocationAgain ==
  /\ pc = "done" /\ earlier # NoEarlier
  /\ earlier.adapter = adapter /\ earlier.op = op /\ earlier.arg = arg
  /\ earlier.mango = mango
  /\ earlier.responses = responses

\* C18: adapters hold no state across invocations: for any sequence of
\* earlier invocations, two invocations of the same operation with the same
\* argument that receive the same collaborator responses produce the same
\* outcome (same returned list or same failure).
C18_SameResponsesSameOutcome == SameInvocationAgain => outcome = earlier.outcome

\* what does hold: the outcomes agree when the two invocations have read the
\* same time from the clock as well
SameClockSameOutcome ==
  (SameInvocationAgain /\ earlier.clock = clock) => outcome = earlier.outcome

\* the items of the source that the k-th ChapterResult of a returned
\* getChapters may stem from (those that give its identifier), each as the
\* date the source states for it ("" when it states none)
SourceDatesOf(k) ==
  LET items == PagesConcat(responses)
      id == outcome.value[k].identifier
  IN CASE adapter = "MangaDex" ->
            {items[i].publishAt : i \in {j \in 1..Len(items) : items[j].id = id}}
       [] adapter = "Webtoons" ->
            {items[i].exposureDateMillis :
               i \in {j \in 1..Len(items) :
                        \E n \in {items[j].episodeNo, <<"0">>} :
                          WebtoonsChapterId(arg, items[j].viewerLink, n) = id}}
       [] adapter = "WeebCentral" ->
            {items[i].datetime :
               i \in {j \in 1..Len(items) :
                        /\ items[j].hasA /\ items[j].href # Null
                        /\ IndexOf(items[j].href, ChaptersPath) # 0
                        /\ From(items[j].href, IndexOf(items[j].href, ChaptersPath) + Len(ChaptersPath)) = id}}

\* the ISO-8601 forms of the date d of the source; none when d is no date
Iso8601Of(d) ==
  IF DateIsValid(d) THEN {toISOString(d)} \cup ({d} \cap {ValidDate}) ELSE {}

\* C21: in every ChapterResult returned by any adapter's getChapters,
\* published_at is an ISO-8601 timestamp taken from the source, or the empty
\* string when the source gives no publication date for that chapter.
C21_PublishedAtFromSource ==
  (pc = "done" /\ op = "getChapters" /\ outcome.kind = "returned") =>
    \A k \in 1..Len(outcome.value) :
      \E d \in SourceDatesOf(k) :
        outcome.value[k].published_at \in (IF Iso8601Of(d) = {} THEN {""} ELSE Iso8601Of(d))

\* the SearchResult r stems from the candidate entry e of adapter a: it
\* carries the identifier of e and a title of e (or the placeholder)
StemsFrom(a, e, r) ==
  CASE a = "MangaDex" ->
         /\ e.id = r.identifier
         /\ r.title \in {e.title[i][2] : i \in 1..Len(e.title)} \cup {Untitled}
    [] a = "Webtoons" ->
         e.titleNo = r.identifier /\ r.title \in {e.title, Untitled}
    [] a = "WeebCentral" ->
         /\ e.href # Null /\ SeriesSegment(e.href) = r.identifier
         /\ r.title \in {Trim(t) : t \in {e.flexText, e.text, e.spanText} \ {Null}}

\* results is made of the entries at some positions of entries, one result
\* for each position, in the order of the positions
KeepsSourceOrder(a, entries, results) ==
  \E kept \in SUBSET (1..Len(entries)) :
    /\ Cardinality(kept) = Len(results)
    /\ \A i \in kept :
         StemsFrom(a, entries[i], results[Cardinality({j \in kept : j <= i})])

\* C22: in every adapter, the list returned by search keeps the relative
\* order in which the surviving entries appear in the source response: search
\* only filters and maps, it never reorders.
C22_SearchKeepsSourceOrder ==
  (pc = "done" /\ op = "search" /\ outcome.kind = "returned"
     /\ ~SearchBodyUnusable(adapter, LastResponse.body)) =>
    KeepsSourceOrder(adapter, SearchCandidates(adapter, LastResponse.body), outcome.value)

\* C22 witness: a Webtoons search has returned two results for two distinct
\* series out of a list of two entries
C22_Witness ==
  /\ pc = "done" /\ op = "search" /\ adapter = "Webtoons"
  /\ outcome.kind = "returned" /\ Len(outcome.value) = 2
  /\ Len(LastResponse.body.data) = 2
  /\ outcome.value[1].identifier # outcome.value[2].identifier

\* C23: every search invocation, in every adapter and whatever its outcome,
\* issues exactly one HTTP request.
C23_SearchIssuesOneRequest ==
  op = "search" =>
    /\ Len(requests) = 1
    /\ Len(responses) = (IF pc = "done" THEN 1 ELSE 0)

\* C23 witness: a WeebCentral search has failed on the answer to its one
\* request
C23_Witness ==
  /\ pc = "done" /\ op = "search" /\ adapter = "WeebCentral"
  /\ outcome.kind = "threw"
  /\ Len(requests) = 1 /\ requests[1].method = "POST"

\* C24: Webtoons getChapters fails, on whichever page it happens, when the
\* episodes response has success status but no data, success false, or no
\* array result.episodeList; in that case it returns no partial chapter list
\* and issues no further page request.
C24_BadEpisodesPageFails ==
  (adapter = "Webtoons" /\ op = "getChapters") =>
    \A i \in 1..Len(responses) :
      (Ok(responses[i]) /\ ~EpisodePageAccepted(i)) =>
        /\ pc = "done" /\ i = Len(responses)
        /\ outcome.kind = "threw" /\ outcome.value = <<>>
        /\ Len(requests) = i

\* C24 witness: the second page, which follows a page of one episode, has
\* success status and success false, and getChapters has failed
C24_Witness ==
  /\ pc = "done" /\ adapter = "Webtoons" /\ op = "getChapters"
  /\ Len(responses) = 2
  /\ EpisodePageAccepted(1) /\ Len(responses[1].body.data) = 1
  /\ Ok(responses[2]) /\ ~responses[2].body.isNull /\ ~responses[2].body.success
  /\ outcome.kind = "threw"

\* what a step that takes in an accepted episodes page does next, the page
\* being followed when its nextCursor is non-null (strict) or truthy: it
\* issues one further request that carries the nextCursor of the page when the
\* page is followed, and ends the invocation with no further request
\* otherwise (the log of the requests holds MaxCursorPages entries at most)
EpisodesPageStep(strict) ==
  LET page == responses'[Len(responses')].body
      followed == IF strict THEN page.nextCursor # JSNull ELSE Truthy(page.nextCursor)
  IN (/\ pc = "awaiting" /\ adapter = "Webtoons" /\ op = "getChapters"
      /\ Len(responses') = Len(responses) + 1
      /\ Ok(responses'[Len(responses')])
      /\ ~page.isNull /\ page.success /\ page.hasList) =>
       IF followed
       THEN /\ pc' = "awaiting"
            /\ requests' = Logged(requests, Request("GET", "episodes", arg, page.nextCursor.n),
                                  MaxCursorPages)
       ELSE /\ pc' = "done" /\ outcome'.kind = "returned"
            /\ requests' = requests

\* C25 (as stated): Webtoons getChapters keeps requesting pages until a page
\* reports nextCursor null and stops only then: after a successful page whose
\* nextCursor is any non-null value it issues a further request carrying that
\* value as cursor.
C25_RequestsUntilNullCursor == [][EpisodesPageStep(TRUE)]_vars

\* C25 (amended): Webtoons getChapters keeps requesting pages until a page
\* reports a falsy nextCursor (null, absent or 0) and stops only then: after a
\* successful page whose nextCursor is truthy it issues a further request
\* carrying that value as cursor.
C25_RequestsUntilFalsyCursor == [][EpisodesPageStep(FALSE)]_vars

\* C25 witness: a page naming cursor 100 was followed by a request at 100,
\* whose answer names cursor 0 and has ended the invocation
C25_Witness ==
  /\ pc = "done" /\ adapter = "Webtoons" /\ op = "getChapters"
  /\ Len(responses) = 2 /\ Len(requests) = 2
  /\ responses[1].body.nextCursor = JSNum(100) /\ requests[2].page = 100
  /\ EpisodePageAccepted(2) /\ responses[2].body.nextCursor = JSNum(0)
  /\ outcome.kind = "returned"

SortedKeepingTies(listed, sorted) ==
  LET Value(c) == IF parseFloat(c.chapter).nan THEN 0 ELSE parseFloat(c.chapter).v
      values == {Value(listed[i]) : i \in 1..Len(listed)}
  IN /\ Len(sorted) = Len(listed)
     /\ \A i \in 1..(Len(sorted) - 1) : Value(sorted[i]) <= Value(sorted[i + 1])
     /\ \A v \in values :
          LET HasValue(c) == Value(c) = v
          IN SelectSeq(sorted, HasValue) = SelectSeq(listed, HasValue)

\* the chapters of a returned getChapters of WeebCentral or Webtoons, in the
\* order in which the source listed them
ChaptersAsListed ==
  IF adapter = "WeebCentral" THEN WeebCentralCollect(LastResponse.body.data)
  ELSE [i \in 1..Len(PagesConcat(responses)) |->
          WebtoonsChapterResult(arg, PagesConcat(responses)[i], clock)]

\* C27 (as stated): in the sorted chapter list returned by WeebCentral and
\* Webtoons getChapters, a chapter whose chapter field does not parse as a
\* number is ordered as if its value were 0, and chapters with equal numeric
\* value keep the relative order in which the source listed them.
C27_TiesInSourceOrder ==
  (pc = "done" /\ op = "getChapters" /\ adapter \in {"WeebCentral", "Webtoons"}
     /\ outcome.kind = "returned") =>
    SortedKeepingTies(ChaptersAsListed, outcome.value)

\* C27 (amended): a chapter whose chapter field does not parse as a number
\* is ordered as if its value were 0; chapters with equal numeric value keep
\* the relative order in which the source listed them in Webtoons, and stand
\* in the reverse of that order in WeebCentral, which reverses the list
\* before it sorts it.
C27_TiesInSourceOrderOrReversed ==
  (pc = "done" /\ op = "getChapters" /\ adapter \in {"WeebCentral", "Webtoons"}
     /\ outcome.kind = "returned") =>
    SortedKeepingTies(IF adapter = "WeebCentral" THEN Reverse(ChaptersAsListed)
                      ELSE ChaptersAsListed,
                      outcome.value)

\* C27 witness: WeebCentral has returned, the later one first, a chapter
\* without a number and a chapter 0 that the source lists in this order
C27_Witness ==
  /\ pc = "done" /\ op = "getChapters" /\ adapter = "WeebCentral"
  /\ outcome.kind = "returned" /\ Len(outcome.value) = 2
  /\ Len(LastResponse.body.data) = 2
  /\ outcome.value[1].chapter = <<"0">> /\ outcome.value[2].chapter = <<>>
  /\ SecondPart(LastResponse.body.data[1].href, ChaptersPath) = outcome.value[2].identifier
  /\ SecondPart(LastResponse.body.data[2].href, ChaptersPath) = outcome.value[1].identifier

\* C28: MangaDex getChapters returns exactly the reverse of the
\* concatenation, in fetch order, of all feed pages' items: no chapter is
\* dropped, duplicated or otherwise reordered, and each result's identifier is
\* the chapter id verbatim from the API.
C28_ReverseOfAllPages ==
  (pc = "done" /\ adapter = "MangaDex" /\ op = "getChapters" /\ outcome.kind = "returned") =>
    LET items == PagesConcat(responses)
        NumberOf(x) == IF x = Null THEN <<>> ELSE x
        n == Len(items)
    IN /\ Len(outcome.value) = n
       /\ \A k \in 1..n :
            /\ outcome.value[k].identifier = items[n + 1 - k].id
            /\ outcome.value[k].chapter = NumberOf(items[n + 1 - k].chapter)

\* C28 witness: a full page and then a short page of two chapters were
\* fetched, and the list returned starts with the last chapter of the short
\* page and ends with the first chapter of the full page
C28_Witness ==
  /\ pc = "done" /\ adapter = "MangaDex" /\ op = "getChapters"
  /\ outcome.kind = "returned"
  /\ Len(responses) = 2 /\ Len(responses[2].body.data) = 2
  /\ responses[2].body.data[1].id # responses[2].body.data[2].id
  /\ Len(outcome.value) = 502
  /\ outcome.value[1].identifier = responses[2].body.data[2].id
  /\ outcome.value[502].identifier = responses[1].body.data[1].id

\* C29: Webtoons identifier hand-off: for every series identifier produced
\* by Webtoons search and every episode list the episodes API can return, each
\* ChapterResult.identifier produced by getChapters is accepted by
\* getPageURLs, i.e. getPageURLs never fails with "Invalid chapter ID format"
\* on an identifier that the same adapter's getChapters returned.
C29_ReturnedIdentifiersAccepted ==
  (pc = "done" /\ adapter = "Webtoons" /\ op = "getChapters" /\ outcome.kind = "returned"
     /\ arg # <<>> /\ \A i \in 1..Len(arg) : arg[i] \in Digits) =>
    \A k \in 1..Len(outcome.value) : MatchChapterId(outcome.value[k].identifier).matched

\* C30: WeebCentral cleanChapterNumber strips all leading zeros ("007"
\* becomes "7"), maps a string that is empty after stripping to "0", is
\* idempotent, and for every input matching digits with an optional decimal
\* part leaves the numeric value unchanged:
\* parseFloat(cleanChapterNumber(s)) = parseFloat(s).
C30_CleanChapterNumber ==
  (op = "cleanChapterNumber" /\ pc = "done") =>
    LET s == arg
        r == outcome.value
        zeros == Cardinality({k \in 1..Len(s) : \A i \in 1..k : s[i] = "0"})
        stripped == From(s, zeros + 1)
        ip == LeadingDigits(s)
        fp == From(s, Len(ip) + 1)
        isDecimal == /\ ip # <<>>
                     /\ fp # <<>> => /\ fp[1] = "." /\ Len(fp) > 1
                                     /\ \A i \in 2..Len(fp) : fp[i] \in Digits
    IN /\ outcome.kind = "returned"
       /\ r = (IF stripped = <<>> THEN <<"0">> ELSE stripped)
       /\ cleanChapterNumber(r) = r
       /\ isDecimal => parseFloat(r) = parseFloat(s)

\* C30 witness: "007" has become "7"
C30_Witness ==
  /\ op = "cleanChapterNumber" /\ pc = "done"
  /\ arg = <<"0","0","7">> /\ outcome.value = <<"7">>

====
